---- MODULE Spec2Model ----
(***************************************************************************)
(* Reportify: the REST API (authentication, RBAC, users, sessions,         *)
(* reports, exports, snippets, audit log) and the PAR-N report composer.   *)
(*                                                                         *)
(* The route files mix two data-access styles (MockDatabase methods and    *)
(* ORM query builders).  Both are modelled as operations on one set of     *)
(* tables: a lookup with a where-clause is a filter on the table, insert   *)
(* adds a row with a fresh id, update ... where(eq(id)) rewrites the row   *)
(* with that id.  The storage itself is assumed not to fail.               *)
(*                                                                         *)
(* A request is one action (the preHandler hooks and the whole handler).   *)
(* Two handlers are modelled step by step, because their awaits separate   *)
(* a read from the write that depends on it: POST /reports/:id/generate    *)
(* and POST /exports/:id/retry.  The reply of a request is held in resp    *)
(* until it is sent (SendReply); requests are served one reply at a time.  *)
(***************************************************************************)
EXTENDS Integers, Sequences, FiniteSets, TLC

\* ------------------------------------------------------------------ bounds
MaxAudit == 3        \* audit-log entries in a run
MaxEvents == 1       \* events stored per session through the API
MaxUsage == 1        \* snippet usageCount
MaxInflight == 2     \* handlers suspended at an await at one time
MaxTimers == 2       \* setTimeout callbacks pending for one export
MaxLen == 4          \* events of a session handed to the report composer

\* ------------------------------------------------------------ identifiers
T1 == "demo-tenant-1"
T2 == "7b0c1f0e-0000-4000-8000-000000000002"
NoToken == "no-token"
NoneId == "none"
Undef == "undef"
Ip == "10.0.0.1"

SeedUserIds == {"user-1", "user-2", "user-3"}
NewUserId == "user-4"
UserIds == SeedUserIds \cup {NewUserId}
Roles == {"agent", "manager", "admin", "auditor"}

\* z.string().uuid(): the ids the ORM generates are uuids, the seed data's
\* ids ("demo-tenant-1", "report-1", ...) are not
IsUuid(s) == s \in {T2, "report-3", "report-4"}
IsEmail(s) == s \in {"admin@reportify.com", "agent@reportify.com",
                     "manager@reportify.com", "new@example.com"}
StrLen(s) == CASE s = "password" -> 8
               [] s = "wrongpass" -> 9
               [] s = "short" -> 5
               [] OTHER -> 0

VARIABLES
  users,      \* users table: id -> row
  sessions,   \* sessions table: id -> row
  events,     \* events table: session id -> the session's events in order
  reports,    \* reports table: id -> row
  exports,    \* exports table: id -> row
  snippets,   \* snippets table: id -> row
  auditLogs,  \* audit_logs table, in insertion order
  inflight,   \* handlers suspended at an await: slot -> continuation
  timers,     \* setTimeout callbacks not yet finished
  resp,       \* the reply being sent, or Idle
  parn,       \* report composer: input session events and the report returned
  jobs,       \* TranscriptionQueue.jobs: job id -> job
  processingQueue, \* TranscriptionQueue.processingQueue: job ids in order
  isProcessing,    \* TranscriptionQueue.isProcessing
  loops,      \* the running startQueueProcessor loops and where each stands
  accepted,   \* history: job ids in the order addJob returned them
  started,    \* history: job ids in the order processJob began them
  now,        \* Date.now() of the asr-service, in hours
  rec,        \* the RecordingSession: its fields and where start/stop stand
  sent        \* history: the apiClient.addEvent calls made, in order

\* the API service, the transcription queue of the asr-service, and the
\* desktop recorder's RecordingSession
apiVars == <<users, sessions, events, reports, exports, snippets, auditLogs,
             inflight, timers, resp, parn>>
queueVars == <<jobs, processingQueue, isProcessing, loops, accepted, started,
               now>>
recVars == <<rec, sent>>
vars == <<apiVars, queueVars, recVars>>

\* ---------------------------------------------------------------- replies
Idle == [route |-> "idle", token |-> NoToken, status |-> 0, error |-> "",
         handler |-> FALSE, valid |-> TRUE, named |-> NoneId, ret |-> {},
         rid |-> NoneId]

\* handler: the route handler's body ran (every preHandler let the request
\* through); valid: the body/query passes the route's schema; named: tenant
\* of the row the request names (NoneId: no such row, or none named);
\* ret: tenants of the rows whose data the reply carries; rid: the id of
\* the resource the request acted on.
Reply(route, token, status, error, handler, valid, named, ret, rid) ==
  [route |-> route, token |-> token, status |-> status, error |-> error,
   handler |-> handler, valid |-> valid, named |-> named, ret |-> ret,
   rid |-> rid]

\* ------------------------------------------------------------- middleware
\* the hook without its isActive check
authenticateInactive(token) ==
  IF token = NoToken
    THEN [ok |-> FALSE, status |-> 401, error |-> "Invalid token"]
  ELSE IF token \notin DOMAIN users
    THEN [ok |-> FALSE, status |-> 401, error |-> "Invalid or inactive user"]
  ELSE [ok |-> TRUE, status |-> 200, error |-> "",
        id |-> token, tenantId |-> users[token].tenantId,
        role |-> users[token].role]

authenticate(token) ==
  IF token = NoToken
    THEN [ok |-> FALSE, status |-> 401, error |-> "Invalid token"]
  ELSE IF token \notin DOMAIN users \/ ~users[token].isActive
    THEN [ok |-> FALSE, status |-> 401, error |-> "Invalid or inactive user"]
  ELSE [ok |-> TRUE, status |-> 200, error |-> "",
        id |-> token, tenantId |-> users[token].tenantId,
        role |-> users[token].role]

\* the hook letting every role through
requireRoleAny(allowedRoles, user) ==
  [ok |-> TRUE, status |-> 200, error |-> ""]

requireRole(allowedRoles, user) ==
  IF user.role \notin allowedRoles
    THEN [ok |-> FALSE, status |-> 403, error |-> "Insufficient permissions"]
    ELSE [ok |-> TRUE, status |-> 200, error |-> ""]

\* the reply of a request stopped by the authenticate hook
AuthFail(route, token, valid, a) ==
  Reply(route, token, a.status, a.error, FALSE, valid, NoneId, {}, NoneId)

\* ------------------------------------------------------------ MockDatabase
SeedUsers ==
  ("user-1" :> [tenantId |-> T1, email |-> "admin@reportify.com",
                name |-> "Admin User", role |-> "admin", isActive |-> TRUE])
  @@ ("user-2" :> [tenantId |-> T1, email |-> "agent@reportify.com",
                name |-> "Agent Smith", role |-> "agent", isActive |-> TRUE])
  @@ ("user-3" :> [tenantId |-> T1, email |-> "manager@reportify.com",
                name |-> "Manager Johnson", role |-> "manager",
                isActive |-> TRUE])

findUserByEmail(email) ==
  IF \E u \in DOMAIN users : users[u].email = email
    THEN CHOOSE u \in DOMAIN users : users[u].email = email
    ELSE NoneId

findUsersByTenant(tenantId) ==
  {u \in DOMAIN users : users[u].tenantId = tenantId}

AuditEntry(tenantId, userId, action, resourceType, resourceId, ip) ==
  [tenantId |-> tenantId, userId |-> userId, action |-> action,
   resourceType |-> resourceType, resourceId |-> resourceId,
   ipAddress |-> ip]

\* unshift instead of push
addAuditLogFirst(logs, logData) == <<logData>> \o logs

addAuditLog(logs, logData) == Append(logs, logData)

\* filter copies the array, so sorting and slicing leave the table alone;
\* the result is the tenant's entries, newest first, at most limit of them
RECURSIVE Reverse(_)
Reverse(s) == IF s = <<>> THEN <<>> ELSE Append(Reverse(Tail(s)), Head(s))

findAuditLogsByTenant(tenantId, limit) ==
  LET mine == SelectSeq(auditLogs, LAMBDA l : l.tenantId = tenantId)
      sorted == Reverse(mine)
  IN SubSeq(sorted, 1, IF Len(sorted) < limit THEN Len(sorted) ELSE limit)

\* handlers suspended at an await that will still write an audit entry
Reserved == Cardinality({s \in DOMAIN inflight : inflight[s].kind = "generate"})
AuditRoom == Len(auditLogs') + Reserved' <= MaxAudit

\* slots for handlers suspended at an await
FreeSlots == {s \in DOMAIN inflight : inflight[s].kind = "free"}
FreeSlot == CHOOSE s \in FreeSlots : \A t \in FreeSlots : s <= t
Free == [kind |-> "free", token |-> NoToken, id |-> NoneId, evs |-> <<>>]

\* ------------------------------------------------------------- input sets
LoginEmails == {"agent@reportify.com", "new@example.com", "not-an-email"}
Passwords == {"password", "wrongpass", "short"}
RegisterEmails == {"new@example.com", "agent@reportify.com"}
RegisterTenants == {T1, T2}
TargetUserIds == {"user-2", NewUserId}
UserPatchTokens == {NoToken, "user-1", "user-2", NewUserId}

\* bodies of PATCH /users/:userId (isActive as sent: "true"/"false"/absent)
UserBody(valid, name, role, isActive) ==
  [valid |-> valid, name |-> name, role |-> role, isActive |-> isActive]
UserBodies == {UserBody(TRUE, "Renamed", Undef, Undef),
               UserBody(TRUE, Undef, "auditor", Undef),
               UserBody(TRUE, Undef, Undef, "false"),
               UserBody(FALSE, Undef, Undef, Undef)}

\* ------------------------------------------------------- index.ts: /health
Health ==
  /\ resp = Idle
  /\ resp' = Reply("GET /health", NoToken, 200, "", TRUE, TRUE, NoneId, {},
                   NoneId)
  /\ UNCHANGED <<users, sessions, events, reports, exports, snippets,
                 auditLogs, inflight, timers, parn, queueVars, recVars>>

\* --------------------------------------------------------------- authRoutes
\* the handler without its isActive test
loginResultInactive(email, password) ==
  LET valid == IsEmail(email) /\ StrLen(password) >= 8
      user == findUserByEmail(email)
  IN IF ~valid
       THEN Reply("POST /auth/login", NoToken, 400, "Validation error", TRUE,
                  FALSE, NoneId, {}, NoneId)
     ELSE IF user = NoneId
       THEN Reply("POST /auth/login", NoToken, 401, "Invalid credentials",
                  TRUE, TRUE, NoneId, {}, NoneId)
     ELSE IF password # "password"
       THEN Reply("POST /auth/login", NoToken, 401, "Invalid credentials",
                  TRUE, TRUE, NoneId, {}, NoneId)
     ELSE Reply("POST /auth/login", NoToken, 200, "", TRUE, TRUE,
                users[user].tenantId, {users[user].tenantId}, user)

loginResult(email, password) ==
  LET valid == IsEmail(email) /\ StrLen(password) >= 8
      user == findUserByEmail(email)
  IN IF ~valid
       THEN Reply("POST /auth/login", NoToken, 400, "Validation error", TRUE,
                  FALSE, NoneId, {}, NoneId)
     ELSE IF user = NoneId \/ ~users[user].isActive
       THEN Reply("POST /auth/login", NoToken, 401, "Invalid credentials",
                  TRUE, TRUE, NoneId, {}, NoneId)
     ELSE IF password # "password"
       THEN Reply("POST /auth/login", NoToken, 401, "Invalid credentials",
                  TRUE, TRUE, NoneId, {}, NoneId)
     ELSE Reply("POST /auth/login", NoToken, 200, "", TRUE, TRUE,
                users[user].tenantId, {users[user].tenantId}, user)

Login(email, password) ==
  /\ resp = Idle
  /\ LET r == loginResult(email, password) IN
     /\ resp' = r
     /\ auditLogs' =
          IF r.status = 200
            THEN addAuditLog(auditLogs,
                   AuditEntry(users[r.rid].tenantId, r.rid, "login", "user",
                              r.rid, Ip))
            ELSE auditLogs
  /\ UNCHANGED <<users, sessions, events, reports, exports, snippets,
                 inflight, timers, parn, queueVars, recVars>>
  /\ AuditRoom

\* the row db.insert(users).values({email, name, tenantId, role}) creates;
\* isActive takes the schema default
registeredUser(email, tenantId) ==
  [tenantId |-> tenantId, email |-> email, name |-> "New User",
   role |-> "agent", isActive |-> TRUE]

registerResult(email, password, tenantId) ==
  LET valid == IsEmail(email) /\ StrLen(password) >= 8 /\ IsUuid(tenantId)
  IN IF ~valid
       THEN Reply("POST /auth/register", NoToken, 400, "Validation error",
                  TRUE, FALSE, NoneId, {}, NoneId)
     ELSE IF findUserByEmail(email) # NoneId
       THEN Reply("POST /auth/register", NoToken, 409, "User already exists",
                  TRUE, TRUE, NoneId, {}, NoneId)
     ELSE Reply("POST /auth/register", NoToken, 200, "", TRUE, TRUE,
                NoneId, {tenantId}, NewUserId)

Register(email, password, tenantId) ==
  /\ resp = Idle
  /\ LET r == registerResult(email, password, tenantId) IN
     /\ resp' = r
     /\ users' = IF r.status = 200
                   THEN users @@ (NewUserId :> registeredUser(email, tenantId))
                   ELSE users
     /\ auditLogs' =
          IF r.status = 200
            THEN addAuditLog(auditLogs,
                   AuditEntry(tenantId, NewUserId, "register", "user",
                              NewUserId, Ip))
            ELSE auditLogs
  /\ UNCHANGED <<sessions, events, reports, exports, snippets, inflight,
                 timers, parn, queueVars, recVars>>
  /\ AuditRoom

Me(token) ==
  /\ resp = Idle
  /\ LET a == authenticate(token) IN
     resp' = IF ~a.ok THEN AuthFail("GET /auth/me", token, TRUE, a)
             ELSE Reply("GET /auth/me", token, 200, "", TRUE, TRUE,
                        a.tenantId, {a.tenantId}, a.id)
  /\ UNCHANGED <<users, sessions, events, reports, exports, snippets,
                 auditLogs, inflight, timers, parn, queueVars, recVars>>

\* --------------------------------------------------------------- userRoutes
GetUsers(token) ==
  /\ resp = Idle
  /\ LET a == authenticate(token)
         route == "GET /users"
     IN resp' =
          IF ~a.ok THEN AuthFail(route, token, TRUE, a)
          ELSE LET g == requireRole({"manager", "admin"}, a) IN
            IF ~g.ok
              THEN Reply(route, token, g.status, g.error, FALSE, TRUE, NoneId,
                         {}, NoneId)
              ELSE Reply(route, token, 200, "", TRUE, TRUE, NoneId,
                         {users[u].tenantId : u \in findUsersByTenant(a.tenantId)},
                         NoneId)
  /\ UNCHANGED <<users, sessions, events, reports, exports, snippets,
                 auditLogs, inflight, timers, parn, queueVars, recVars>>

TenantOfUser(userId) ==
  IF userId \in DOMAIN users THEN users[userId].tenantId ELSE NoneId

GetUser(token, userId) ==
  /\ resp = Idle
  /\ LET a == authenticate(token)
         route == "GET /users/:userId"
         named == TenantOfUser(userId)
     IN resp' =
          IF ~a.ok THEN AuthFail(route, token, TRUE, a)
          ELSE IF a.id # userId /\ a.role \notin {"manager", "admin"}
            THEN Reply(route, token, 403, "Insufficient permissions", TRUE,
                       TRUE, named, {}, userId)
          ELSE IF ~(userId \in DOMAIN users /\ users[userId].tenantId = a.tenantId)
            THEN Reply(route, token, 404, "User not found", TRUE, TRUE, named,
                       {}, userId)
          ELSE Reply(route, token, 200, "", TRUE, TRUE, named,
                     {users[userId].tenantId}, userId)
  /\ UNCHANGED <<users, sessions, events, reports, exports, snippets,
                 auditLogs, inflight, timers, parn, queueVars, recVars>>

\* the permission check of PATCH /:userId: "" when the request may go on
\* the permission check without its own-profile rule
patchUserPermissionOwn(a, userId, body) ==
  IF a.id # userId /\ a.role # "admin" THEN "Insufficient permissions"
  ELSE ""

patchUserPermission(a, userId, body) ==
  LET isOwnProfile == a.id = userId
      isAdmin == a.role = "admin"
  IN IF ~isOwnProfile /\ ~isAdmin THEN "Insufficient permissions"
     ELSE IF isOwnProfile /\ ~isAdmin
             /\ (body.role # Undef \/ body.isActive # Undef)
       THEN "Cannot modify role or active status"
     ELSE ""

patchUserResult(token, userId, body) ==
  LET a == authenticate(token)
      route == "PATCH /users/:userId"
      named == TenantOfUser(userId)
  IN IF ~a.ok THEN AuthFail(route, token, body.valid, a)
     ELSE IF ~body.valid
       THEN Reply(route, token, 400, "Validation error", TRUE, FALSE, named,
                  {}, userId)
     ELSE IF patchUserPermission(a, userId, body) # ""
       THEN Reply(route, token, 403, patchUserPermission(a, userId, body),
                  TRUE, TRUE, named, {}, userId)
     ELSE IF ~(userId \in DOMAIN users /\ users[userId].tenantId = a.tenantId)
       THEN Reply(route, token, 404, "User not found", TRUE, TRUE, named, {},
                  userId)
     ELSE Reply(route, token, 200, "", TRUE, TRUE, named,
                {users[userId].tenantId}, userId)

\* db.update(users).set({...updateData}): only the keys sent are written
applyUserUpdate(row, body) ==
  [row EXCEPT !.name = IF body.name # Undef THEN body.name ELSE @,
              !.role = IF body.role # Undef THEN body.role ELSE @,
              !.isActive = IF body.isActive # Undef
                             THEN body.isActive = "true" ELSE @]

PatchUser(token, userId, body) ==
  /\ resp = Idle
  /\ LET r == patchUserResult(token, userId, body) IN
     /\ resp' = r
     /\ users' = IF r.status = 200
                   THEN [users EXCEPT ![userId] = applyUserUpdate(@, body)]
                   ELSE users
     /\ auditLogs' =
          IF r.status = 200
            THEN addAuditLog(auditLogs,
                   AuditEntry(users[token].tenantId, token, "user_updated",
                              "user", userId, Ip))
            ELSE auditLogs
  /\ UNCHANGED <<sessions, events, reports, exports, snippets, inflight,
                 timers, parn, queueVars, recVars>>
  /\ AuditRoom

\* --------------------------------------------- analyticsRoutes, auditRoutes
AnalyticsPaths == {"GET /analytics/dashboard", "GET /analytics/quality",
                   "GET /analytics/trends"}
AuditPaths == {"GET /audit", "GET /audit/summary", "GET /audit/export"}
\* routes that parse request.query with a zod schema
HasQuerySchema(route) ==
  route \in {"GET /analytics/dashboard", "GET /analytics/quality",
             "GET /audit", "GET /audit/export"}

\* tenants of the rows an analytics query aggregates
analyticsRows(route, tenantId) ==
  IF route = "GET /analytics/quality"
    THEN {reports[r].tenantId : r \in {x \in DOMAIN reports :
                                         reports[x].tenantId = tenantId}}
    ELSE {sessions[x].tenantId : x \in {y \in DOMAIN sessions :
                                         sessions[y].tenantId = tenantId}}

roleRouteResult(route, allowedRoles, token, queryValid, rows) ==
  LET a == authenticate(token)
      valid == ~HasQuerySchema(route) \/ queryValid
  IN IF ~a.ok THEN AuthFail(route, token, valid, a)
     ELSE LET g == requireRole(allowedRoles, a) IN
       IF ~g.ok
         THEN Reply(route, token, g.status, g.error, FALSE, valid, NoneId, {},
                    NoneId)
       ELSE IF ~valid
         THEN Reply(route, token, 400, "Validation error", TRUE, FALSE,
                    NoneId, {}, NoneId)
       ELSE Reply(route, token, 200, "", TRUE, TRUE, NoneId, rows, NoneId)

AnalyticsRoute(route, token, queryValid) ==
  /\ resp = Idle
  /\ resp' = roleRouteResult(route, {"manager", "admin"}, token, queryValid,
               IF token \in DOMAIN users
                 THEN analyticsRows(route, users[token].tenantId) ELSE {})
  /\ UNCHANGED <<users, sessions, events, reports, exports, snippets,
                 auditLogs, inflight, timers, parn, queueVars, recVars>>

\* GET /audit, /audit/summary, /audit/export read the tenant's entries,
\* newest first, up to the route's limit
AuditLimit == 10000
AuditRoute(route, token, queryValid) ==
  /\ resp = Idle
  /\ resp' = roleRouteResult(route, {"admin", "auditor"}, token, queryValid,
               IF token \in DOMAIN users
                 THEN LET logs == findAuditLogsByTenant(users[token].tenantId,
                                                        AuditLimit)
                      IN {logs[i].tenantId : i \in 1..Len(logs)}
                 ELSE {})
  /\ UNCHANGED <<users, sessions, events, reports, exports, snippets,
                 auditLogs, inflight, timers, parn, queueVars, recVars>>

\* ------------------------------------------------------------ sessionRoutes
SeedSessions ==
  ("session-1" :> [tenantId |-> T1, agentId |-> "user-2",
                   status |-> "completed"])
  @@ ("session-2" :> [tenantId |-> T1, agentId |-> "user-2",
                   status |-> "completed"])
NewSessionId == "session-3"
SessionIds == {"session-1", "session-2", NewSessionId}

TenantOfSession(sessionId) ==
  IF sessionId \in DOMAIN sessions THEN sessions[sessionId].tenantId
  ELSE NoneId

\* db.query.sessions.findFirst({where: and(eq(id), eq(tenantId))})
findSessionOfTenant(sessionId, tenantId) ==
  sessionId \in DOMAIN sessions /\ sessions[sessionId].tenantId = tenantId

findSessionsByTenant(tenantId) ==
  {x \in DOMAIN sessions : sessions[x].tenantId = tenantId}

createSessionResult(token, valid) ==
  LET a == authenticate(token)
      route == "POST /sessions"
  IN IF ~a.ok THEN AuthFail(route, token, valid, a)
     ELSE IF ~valid
       THEN Reply(route, token, 400, "Validation error", TRUE, FALSE, NoneId,
                  {}, NoneId)
     ELSE Reply(route, token, 200, "", TRUE, TRUE, NoneId, {a.tenantId},
                NewSessionId)

CreateSession(token, valid) ==
  /\ resp = Idle
  /\ NewSessionId \notin DOMAIN sessions
  /\ LET r == createSessionResult(token, valid) IN
     /\ resp' = r
     /\ sessions' =
          IF r.status = 200
            THEN sessions @@ (NewSessionId :>
                   [tenantId |-> users[token].tenantId, agentId |-> token,
                    status |-> "recording"])
            ELSE sessions
     /\ events' = IF r.status = 200 THEN events @@ (NewSessionId :> <<>>)
                  ELSE events
     /\ auditLogs' =
          IF r.status = 200
            THEN addAuditLog(auditLogs,
                   AuditEntry(users[token].tenantId, token, "session_created",
                              "session", NewSessionId, Ip))
            ELSE auditLogs
  /\ UNCHANGED <<users, reports, exports, snippets, inflight, timers, parn, queueVars, recVars>>
  /\ AuditRoom

GetSessions(token) ==
  /\ resp = Idle
  /\ LET a == authenticate(token)
         route == "GET /sessions"
     IN resp' =
          IF ~a.ok THEN AuthFail(route, token, TRUE, a)
          ELSE Reply(route, token, 200, "", TRUE, TRUE, NoneId,
                 ({sessions[x].tenantId : x \in findSessionsByTenant(a.tenantId)}
                  \cup {TenantOfUser(sessions[x].agentId) :
                          x \in findSessionsByTenant(a.tenantId)}) \ {NoneId},
                 NoneId)
  /\ UNCHANGED <<users, sessions, events, reports, exports, snippets,
                 auditLogs, inflight, timers, parn, queueVars, recVars>>

GetSession(token, sessionId) ==
  /\ resp = Idle
  /\ LET a == authenticate(token)
         route == "GET /sessions/:sessionId"
         named == TenantOfSession(sessionId)
     IN resp' =
          IF ~a.ok THEN AuthFail(route, token, TRUE, a)
          ELSE IF ~findSessionOfTenant(sessionId, a.tenantId)
            THEN Reply(route, token, 404, "Session not found", TRUE, TRUE,
                       named, {}, sessionId)
          ELSE Reply(route, token, 200, "", TRUE, TRUE, named,
                     {sessions[sessionId].tenantId,
                      TenantOfUser(sessions[sessionId].agentId)} \ {NoneId},
                     sessionId)
  /\ UNCHANGED <<users, sessions, events, reports, exports, snippets,
                 auditLogs, inflight, timers, parn, queueVars, recVars>>

addEventResult(token, sessionId, valid) ==
  LET a == authenticate(token)
      route == "POST /sessions/:sessionId/events"
      named == TenantOfSession(sessionId)
  IN IF ~a.ok THEN AuthFail(route, token, valid, a)
     ELSE IF ~valid
       THEN Reply(route, token, 400, "Validation error", TRUE, FALSE, named,
                  {}, sessionId)
     ELSE IF ~findSessionOfTenant(sessionId, a.tenantId)
       THEN Reply(route, token, 404, "Session not found", TRUE, TRUE, named,
                  {}, sessionId)
     ELSE IF sessions[sessionId].status # "recording"
       THEN Reply(route, token, 400, "Session is not in recording state",
                  TRUE, TRUE, named, {}, sessionId)
     ELSE Idle

\* inserts of add-event handlers suspended at their await, for one session
eventsInFlight(sessionId) ==
  Cardinality({s \in DOMAIN inflight :
                 inflight[s].kind = "event" /\ inflight[s].id = sessionId})

\* POST /:sessionId/events up to its check of the session's status: the
\* handler has read the session and is about to insert
AddEventStart(token, sessionId, valid, event) ==
  /\ resp = Idle
  /\ LET r == addEventResult(token, sessionId, valid) IN
     /\ resp' = r
     /\ IF r = Idle
          THEN /\ FreeSlots # {}
               /\ Len(events[sessionId]) + eventsInFlight(sessionId)
                    < MaxEvents
               /\ inflight' = [inflight EXCEPT ![FreeSlot] =
                    [kind |-> "event", token |-> token, id |-> sessionId,
                     evs |-> <<event>>]]
          ELSE inflight' = inflight
  /\ UNCHANGED <<users, sessions, events, reports, exports, snippets,
                 auditLogs, timers, parn, queueVars, recVars>>

\* the rest of the handler: insert the event, reply with it
AddEventFinish(slot) ==
  /\ resp = Idle
  /\ inflight[slot].kind = "event"
  /\ LET h == inflight[slot] IN
     /\ events' = [events EXCEPT ![h.id] = Append(@, h.evs[1])]
     /\ resp' = Reply("POST /sessions/:sessionId/events", h.token, 200, "",
                      TRUE, TRUE, TenantOfSession(h.id),
                      {sessions[h.id].tenantId}, h.id)
  /\ inflight' = [inflight EXCEPT ![slot] = Free]
  /\ UNCHANGED <<users, sessions, reports, exports, snippets, auditLogs,
                 timers, parn, queueVars, recVars>>

endSessionResult(token, sessionId, valid) ==
  LET a == authenticate(token)
      route == "PATCH /sessions/:sessionId/end"
      named == TenantOfSession(sessionId)
  IN IF ~a.ok THEN AuthFail(route, token, valid, a)
     ELSE IF ~valid
       THEN Reply(route, token, 400, "Validation error", TRUE, FALSE, named,
                  {}, sessionId)
     ELSE IF ~findSessionOfTenant(sessionId, a.tenantId)
       THEN Reply(route, token, 404, "Session not found", TRUE, TRUE, named,
                  {}, sessionId)
     ELSE Reply(route, token, 200, "", TRUE, TRUE, named,
                {sessions[sessionId].tenantId}, sessionId)

EndSession(token, sessionId, valid) ==
  /\ resp = Idle
  /\ LET r == endSessionResult(token, sessionId, valid) IN
     /\ resp' = r
     /\ sessions' = IF r.status = 200
                      THEN [sessions EXCEPT ![sessionId].status = "processing"]
                      ELSE sessions
     /\ auditLogs' =
          IF r.status = 200
            THEN addAuditLog(auditLogs,
                   AuditEntry(users[token].tenantId, token, "session_ended",
                              "session", sessionId, Ip))
            ELSE auditLogs
  /\ UNCHANGED <<users, events, reports, exports, snippets, inflight, timers,
                 parn, queueVars, recVars>>
  /\ AuditRoom

\* GET /:sessionId/stream (websocket): the plugin's authenticate hook runs,
\* the handler looks nothing up and only acknowledges the messages it gets
StreamSession(token, sessionId) ==
  /\ resp = Idle
  /\ LET a == authenticate(token)
         route == "GET /sessions/:sessionId/stream"
     IN resp' =
          IF ~a.ok THEN AuthFail(route, token, TRUE, a)
          ELSE Reply(route, token, 200, "", TRUE, TRUE,
                     TenantOfSession(sessionId), {}, sessionId)
  /\ UNCHANGED <<users, sessions, events, reports, exports, snippets,
                 auditLogs, inflight, timers, parn, queueVars, recVars>>

\* ------------------------------------------- reportComposer: PAR-N reports
\* An event is [type, text, action, target]; text is payload.text ("" when
\* the payload has none), action and target are payload.action and
\* payload.target (Undef when absent).  A text is one word of the session's
\* vocabulary; joining texts gives the sequence of their words.
Event(type, text, action, target) ==
  [type |-> type, text |-> text, action |-> action, target |-> target]

\* the keywords the word has as substrings
Keywords(word) ==
  CASE word = "wifi" -> {"wifi"}
    [] word = "password" -> {"password"}
    [] word = "printer" -> {"printer", "print"}
    [] word = "fixed" -> {"fixed"}
    [] word = "escalate" -> {"escalate"}
    [] word = "restart" -> {"restart"}
    [] OTHER -> {}

\* transcripts.join(' ').toLowerCase().includes(kw)
includes(words, kw) == \E i \in 1..Len(words) : kw \in Keywords(words[i])

\* Array.prototype.slice(0, n) and slice(-n)
sliceHead(seq, n) == SubSeq(seq, 1, IF Len(seq) < n THEN Len(seq) ELSE n)
sliceTail(seq, n) ==
  SubSeq(seq, IF Len(seq) > n THEN Len(seq) - n + 1 ELSE 1, Len(seq))

RECURSIVE mapText(_)
mapText(evs) ==
  IF evs = <<>> THEN <<>> ELSE <<Head(evs).text>> \o mapText(Tail(evs))

startsWithUi(type) == type \in {"ui_click", "ui_input_meta"}

P_WIFI == "Customer experiencing WiFi connectivity issues."
P_AUTH == "Customer unable to access account due to authentication issues."
P_PRINTER == "Customer experiencing printer connectivity/functionality issues."
P_SLOW == "Customer reporting slow system performance."
P_EMAIL == "Customer experiencing email client issues."
P_OTHER == "Customer reported technical issue requiring assistance."

extractProblem(earlyTranscripts) ==
  IF includes(earlyTranscripts, "wifi") \/ includes(earlyTranscripts, "wi-fi")
     \/ includes(earlyTranscripts, "network") THEN P_WIFI
  ELSE IF includes(earlyTranscripts, "password")
     \/ includes(earlyTranscripts, "login")
     \/ includes(earlyTranscripts, "access") THEN P_AUTH
  ELSE IF includes(earlyTranscripts, "printer")
     \/ includes(earlyTranscripts, "print") THEN P_PRINTER
  ELSE IF includes(earlyTranscripts, "slow")
     \/ includes(earlyTranscripts, "performance") THEN P_SLOW
  ELSE IF includes(earlyTranscripts, "email")
     \/ includes(earlyTranscripts, "outlook") THEN P_EMAIL
  ELSE P_OTHER

ActionLimit == 10

actionDescription(event) ==
  LET action == IF event.action = Undef THEN "Unknown action" ELSE event.action
      target == IF event.target = Undef THEN "Unknown target" ELSE event.target
  IN CASE action = "click" -> <<"Clicked on", target>>
       [] action = "type" -> <<"Entered information in", target>>
       [] action = "navigate" -> <<"Navigated to", target>>
       [] OTHER -> <<"Performed", action, "on", target>>

DefaultActions ==
  << [step |-> 1, description |-> <<"Verified customer's current system status">>],
     [step |-> 2, description |-> <<"Gathered additional information about the issue">>],
     [step |-> 3, description |-> <<"Applied recommended troubleshooting steps">>] >>

\* the conversion without the common troubleshooting steps
generateActionsNoDefault(uiEvents, transcripts) ==
  LET n == IF Len(uiEvents) < ActionLimit THEN Len(uiEvents) ELSE ActionLimit
  IN [i \in 1..n |->
        [step |-> i, description |-> actionDescription(uiEvents[i])]]

generateActions(uiEvents, transcripts) ==
  LET n == IF Len(uiEvents) < ActionLimit THEN Len(uiEvents) ELSE ActionLimit
      actions == [i \in 1..n |->
                    [step |-> i, description |-> actionDescription(uiEvents[i])]]
  IN IF Len(actions) = 0 THEN DefaultActions ELSE actions

R_RESOLVED ==
  "Issue successfully resolved. Customer confirmed functionality is restored."
R_ESCALATE ==
  "Issue requires escalation to specialist team for advanced troubleshooting."
R_RESTART ==
  "Applied initial troubleshooting steps. Customer to restart system and monitor."
R_OTHER ==
  "Troubleshooting steps completed. Customer to test and report back if issues persist."

extractResult(lateTranscripts) ==
  IF includes(lateTranscripts, "working") \/ includes(lateTranscripts, "fixed")
     \/ includes(lateTranscripts, "resolved") THEN R_RESOLVED
  ELSE IF includes(lateTranscripts, "escalate")
     \/ includes(lateTranscripts, "tier 2")
     \/ includes(lateTranscripts, "specialist") THEN R_ESCALATE
  ELSE IF includes(lateTranscripts, "reboot")
     \/ includes(lateTranscripts, "restart")
     \/ includes(lateTranscripts, "later") THEN R_RESTART
  ELSE R_OTHER

\* result.includes(kw) on the four result sentences
resultIncludes(result, kw) ==
  \/ result = R_ESCALATE /\ kw \in {"escalation", "specialist"}
  \/ result = R_RESOLVED /\ kw = "resolved"

generateNextSteps(problem, result) ==
  IF resultIncludes(result, "escalation") \/ resultIncludes(result, "specialist")
    THEN << [description |-> "Escalate to Tier 2 support for advanced troubleshooting",
             owner |-> "T2 Queue", priority |-> "high"] >>
  ELSE IF resultIncludes(result, "resolved")
    THEN << [description |-> "Follow up with customer in 24 hours to ensure continued functionality",
             owner |-> "T1 Queue", priority |-> "low"] >>
  ELSE << [description |-> "Monitor for customer callback within 48 hours",
           owner |-> "T1 Queue", priority |-> "medium"] >>

extractTags(transcripts, uiEvents) ==
  (IF includes(transcripts, "wifi") \/ includes(transcripts, "network")
     THEN {"network"} ELSE {})
  \cup (IF includes(transcripts, "printer") THEN {"printer"} ELSE {})
  \cup (IF includes(transcripts, "email") \/ includes(transcripts, "outlook")
     THEN {"email"} ELSE {})
  \cup (IF includes(transcripts, "windows") \/ includes(transcripts, "mac")
     THEN {"os"} ELSE {})
  \cup (IF includes(transcripts, "password") \/ includes(transcripts, "login")
     THEN {"authentication"} ELSE {})
  \cup (IF includes(transcripts, "urgent") \/ includes(transcripts, "critical")
     THEN {"high-priority"} ELSE {})
  \cup (IF includes(transcripts, "slow") \/ includes(transcripts, "performance")
     THEN {"performance"} ELSE {})
  \cup (IF includes(transcripts, "resolved") \/ includes(transcripts, "fixed")
     THEN {"resolved"} ELSE {})
  \cup (IF includes(transcripts, "escalate") THEN {"escalated"} ELSE {})

TimelineLimit == 20

formatEventForTimeline(event) ==
  CASE event.type = "asr_transcript" -> "Speaker spoke"
    [] event.type = "ui_click" -> "UI interaction"
    [] event.type = "window_focus" -> "Window changed"
    [] OTHER -> event.type

createTimeline(evs) ==
  LET shown == SelectSeq(evs, LAMBDA e :
                 e.type \in {"asr_transcript", "ui_click", "window_focus"})
      cut == sliceHead(shown, TimelineLimit)
  IN [i \in 1..Len(cut) |-> formatEventForTimeline(cut[i])]

generatePARNReport(sessionEvents) ==
  LET transcripts ==
        SelectSeq(mapText(SelectSeq(sessionEvents,
                            LAMBDA e : e.type = "asr_transcript")),
                  LAMBDA t : t # "")
      uiEvents == SelectSeq(sessionEvents, LAMBDA e : startsWithUi(e.type))
      problem == extractProblem(sliceHead(transcripts, 5))
      actions == generateActions(uiEvents, transcripts)
      result == extractResult(sliceTail(transcripts, 3))
      nextSteps == generateNextSteps(problem, result)
  IN [problem |-> problem, actions |-> actions, result |-> result,
      nextSteps |-> nextSteps, tags |-> extractTags(transcripts, uiEvents),
      timeline |-> createTimeline(sessionEvents)]

\* the composer's inputs: the events a session can hold
ComposerEvents ==
  {Event("asr_transcript", w, Undef, Undef) :
     w \in {"wifi", "password", "fixed", "escalate", "restart", ""}}
  \cup {Event("ui_click", "", "click", "Start menu"),
        Event("ui_input_meta", "", Undef, Undef),
        Event("window_focus", "", Undef, "Settings")}

RECURSIVE SeqsUpTo(_, _)
SeqsUpTo(S, n) ==
  IF n = 0 THEN {<<>>}
  ELSE LET shorter == SeqsUpTo(S, n - 1)
       IN shorter \cup {Append(q, e) : q \in {x \in shorter : Len(x) = n - 1},
                                       e \in S}

NoReport == [problem |-> "", actions |-> <<>>, result |-> "",
             nextSteps |-> <<>>, tags |-> {}, timeline |-> <<>>]

\* one call of generatePARNReport on the session handed to the composer
Compose ==
  /\ parn.done = FALSE
  /\ parn' = [events |-> parn.events, done |-> TRUE,
              report |-> generatePARNReport(parn.events)]
  /\ UNCHANGED <<users, sessions, events, reports, exports, snippets,
                 auditLogs, inflight, timers, resp, queueVars, recVars>>

\* ------------------------------------------------------------- reportRoutes
SeedReportIds == {"report-1", "report-2"}
NewReportIds == {"report-3", "report-4"}

SeedReports ==
  ("report-1" :>
     [sessionId |-> "session-1", tenantId |-> T1, lastEditedBy |-> NoneId,
      data |-> [problem |-> "Customer's laptop would not connect to Wi-Fi network",
                actions |-> [i \in 1..5 |-> [step |-> i,
                                             description |-> <<"seed step">>]],
                result |-> "Device successfully connected to Campus-Secure network.",
                nextSteps |-> << [description |-> "Monitor connectivity for 24 hours",
                                  owner |-> "T1 Queue", priority |-> "low"],
                                 [description |-> "If issue recurs, replace network adapter",
                                  owner |-> "T2 Hardware", priority |-> "medium"] >>,
                tags |-> {"network", "wifi", "driver-update", "resolved"},
                timeline |-> <<>>]])
  @@ ("report-2" :>
     [sessionId |-> "session-2", tenantId |-> T1, lastEditedBy |-> NoneId,
      data |-> [problem |-> "User unable to access Outlook email",
                actions |-> [i \in 1..4 |-> [step |-> i,
                                             description |-> <<"seed step">>]],
                result |-> "Email account successfully configured.",
                nextSteps |-> << [description |-> "Follow up in 48 hours to ensure continued functionality",
                                  owner |-> "T1 Queue", priority |-> "low"] >>,
                tags |-> {"email", "outlook", "authentication", "resolved"},
                timeline |-> <<>>]])

TenantOfReport(reportId) ==
  IF reportId \in DOMAIN reports THEN reports[reportId].tenantId ELSE NoneId

findReportsByTenant(tenantId) ==
  {r \in DOMAIN reports : reports[r].tenantId = tenantId}

\* db.query.reports.findFirst({where: eq(reports.sessionId, sessionId)})
findReportBySessionId(sessionId) ==
  IF \E r \in DOMAIN reports : reports[r].sessionId = sessionId
    THEN CHOOSE r \in DOMAIN reports : reports[r].sessionId = sessionId
    ELSE NoneId

\* tenants of a report row and of the session and agent it is enriched with
enrichedTenants(reportId) ==
  LET sid == reports[reportId].sessionId IN
  ({reports[reportId].tenantId, TenantOfSession(sid)}
   \cup (IF sid \in DOMAIN sessions
           THEN {TenantOfUser(sessions[sid].agentId)} ELSE {})) \ {NoneId}


FreshReportId ==
  CHOOSE r \in NewReportIds \ DOMAIN reports :
    \A q \in NewReportIds \ DOMAIN reports : r = "report-3" \/ q # "report-3"

\* POST /:sessionId/generate up to its check for an existing report: the
\* reply when the handler returns there, Idle when it goes on to compose
generateStartResult(token, sessionId) ==
  LET a == authenticate(token)
      route == "POST /reports/:sessionId/generate"
      named == TenantOfSession(sessionId)
      existingReport == findReportBySessionId(sessionId)
  IN IF ~a.ok THEN AuthFail(route, token, TRUE, a)
     ELSE IF ~findSessionOfTenant(sessionId, a.tenantId)
       THEN Reply(route, token, 404, "Session not found", TRUE, TRUE, named,
                  {}, sessionId)
     ELSE IF existingReport # NoneId
       THEN Reply(route, token, 200, "", TRUE, TRUE, named,
                  {reports[existingReport].tenantId}, existingReport)
     ELSE Idle

GenerateStart(token, sessionId) ==
  /\ resp = Idle
  /\ LET r == generateStartResult(token, sessionId) IN
     /\ resp' = r
     /\ IF r = Idle
          THEN /\ FreeSlots # {}
               /\ Cardinality(NewReportIds \ DOMAIN reports) > Reserved
               /\ inflight' = [inflight EXCEPT ![FreeSlot] =
                    [kind |-> "generate", token |-> token, id |-> sessionId,
                     evs |-> events[sessionId]]]
          ELSE inflight' = inflight
  /\ UNCHANGED <<users, sessions, events, reports, exports, snippets,
                 auditLogs, timers, parn, queueVars, recVars>>
  /\ AuditRoom

\* the rest of the handler: compose, insert the report, complete the
\* session, write the audit entry, reply
GenerateFinish(slot) ==
  /\ resp = Idle
  /\ inflight[slot].kind = "generate"
  /\ LET h == inflight[slot]
         tenantId == users[h.token].tenantId
         id == FreshReportId
     IN /\ reports' = reports @@ (id :>
             [sessionId |-> h.id, tenantId |-> tenantId,
              lastEditedBy |-> NoneId, data |-> generatePARNReport(h.evs)])
        /\ sessions' = [sessions EXCEPT ![h.id].status = "completed"]
        /\ auditLogs' = addAuditLog(auditLogs,
             AuditEntry(tenantId, h.token, "report_generated", "report", id,
                        Ip))
        /\ resp' = Reply("POST /reports/:sessionId/generate", h.token, 200,
                         "", TRUE, TRUE, TenantOfSession(h.id), {tenantId}, id)
  /\ inflight' = [inflight EXCEPT ![slot] = Free]
  /\ UNCHANGED <<users, events, exports, snippets, timers, parn, queueVars, recVars>>

GetReports(token) ==
  /\ resp = Idle
  /\ LET a == authenticate(token)
         route == "GET /reports"
     IN resp' =
          IF ~a.ok THEN AuthFail(route, token, TRUE, a)
          ELSE Reply(route, token, 200, "", TRUE, TRUE, NoneId,
                     UNION {enrichedTenants(r) : r \in findReportsByTenant(a.tenantId)},
                     NoneId)
  /\ UNCHANGED <<users, sessions, events, reports, exports, snippets,
                 auditLogs, inflight, timers, parn, queueVars, recVars>>

getReportResult(token, reportId) ==
  LET a == authenticate(token)
      route == "GET /reports/:reportId"
      named == TenantOfReport(reportId)
  IN IF ~a.ok THEN AuthFail(route, token, TRUE, a)
     ELSE IF reportId \notin DOMAIN reports
             \/ reports[reportId].tenantId # a.tenantId
       THEN Reply(route, token, 404, "Report not found", TRUE, TRUE, named,
                  {}, reportId)
     ELSE Reply(route, token, 200, "", TRUE, TRUE, named,
                enrichedTenants(reportId), reportId)

GetReport(token, reportId) ==
  /\ resp = Idle
  /\ LET r == getReportResult(token, reportId) IN
     /\ resp' = r
     /\ auditLogs' =
          IF r.status = 200
            THEN addAuditLog(auditLogs,
                   AuditEntry(users[token].tenantId, token, "report_viewed",
                              "report", reportId, Ip))
            ELSE auditLogs
  /\ UNCHANGED <<users, sessions, events, reports, exports, snippets,
                 inflight, timers, parn, queueVars, recVars>>
  /\ AuditRoom

\* db.query.reports.findFirst({where: and(eq(id), eq(tenantId))})
\* the lookup without its tenant clause
findReportAnyTenant(reportId, tenantId) == reportId \in DOMAIN reports

findReportOfTenant(reportId, tenantId) ==
  reportId \in DOMAIN reports /\ reports[reportId].tenantId = tenantId

patchReportResult(token, reportId, body) ==
  LET a == authenticate(token)
      route == "PATCH /reports/:reportId"
      named == TenantOfReport(reportId)
  IN IF ~a.ok THEN AuthFail(route, token, body.valid, a)
     ELSE IF ~body.valid
       THEN Reply(route, token, 400, "Validation error", TRUE, FALSE, named,
                  {}, reportId)
     ELSE IF ~findReportOfTenant(reportId, a.tenantId)
       THEN Reply(route, token, 404, "Report not found", TRUE, TRUE, named,
                  {}, reportId)
     ELSE Reply(route, token, 200, "", TRUE, TRUE, named,
                {reports[reportId].tenantId}, reportId)

PatchReport(token, reportId, body) ==
  /\ resp = Idle
  /\ LET r == patchReportResult(token, reportId, body) IN
     /\ resp' = r
     /\ reports' =
          IF r.status = 200
            THEN [reports EXCEPT ![reportId].data.problem = body.problem,
                                 ![reportId].lastEditedBy = token]
            ELSE reports
     /\ auditLogs' =
          IF r.status = 200
            THEN addAuditLog(auditLogs,
                   AuditEntry(users[token].tenantId, token, "report_edited",
                              "report", reportId, Ip))
            ELSE auditLogs
  /\ UNCHANGED <<users, sessions, events, exports, snippets, inflight,
                 timers, parn, queueVars, recVars>>
  /\ AuditRoom

deleteReportResult(token, reportId) ==
  LET a == authenticate(token)
      route == "DELETE /reports/:reportId"
      named == TenantOfReport(reportId)
  IN IF ~a.ok THEN AuthFail(route, token, TRUE, a)
     ELSE IF ~findReportOfTenant(reportId, a.tenantId)
       THEN Reply(route, token, 404, "Report not found", TRUE, TRUE, named,
                  {}, reportId)
     ELSE Reply(route, token, 200, "", TRUE, TRUE, named, {}, reportId)

DeleteReport(token, reportId) ==
  /\ resp = Idle
  /\ LET r == deleteReportResult(token, reportId) IN
     /\ resp' = r
     /\ reports' =
          IF r.status = 200
            THEN [x \in DOMAIN reports \ {reportId} |-> reports[x]]
            ELSE reports
     /\ auditLogs' =
          IF r.status = 200
            THEN addAuditLog(auditLogs,
                   AuditEntry(users[token].tenantId, token, "report_deleted",
                              "report", reportId, Ip))
            ELSE auditLogs
  /\ UNCHANGED <<users, sessions, events, exports, snippets, inflight,
                 timers, parn, queueVars, recVars>>
  /\ AuditRoom

\* ------------------------------------------------------------- exportRoutes
NewExportId == "export-1"
ExportIds == {NewExportId}

TenantOfExport(exportId) ==
  IF exportId \in DOMAIN exports THEN exports[exportId].tenantId ELSE NoneId

findExportOfTenant(exportId, tenantId) ==
  exportId \in DOMAIN exports /\ exports[exportId].tenantId = tenantId

\* tenants of an export row and of the report and user it is returned with
exportTenants(exportId) ==
  {exports[exportId].tenantId, TenantOfReport(exports[exportId].reportId),
   TenantOfUser(exports[exportId].userId)} \ {NoneId}

\* body: [valid, reportId, target]; reportId must be a uuid
createExportResult(token, body) ==
  LET a == authenticate(token)
      route == "POST /exports"
      valid == body.valid /\ IsUuid(body.reportId)
      named == TenantOfReport(body.reportId)
  IN IF ~a.ok THEN AuthFail(route, token, valid, a)
     ELSE IF ~valid
       THEN Reply(route, token, 400, "Validation error", TRUE, FALSE, named,
                  {}, NoneId)
     ELSE IF ~findReportOfTenant(body.reportId, a.tenantId)
       THEN Reply(route, token, 404, "Report not found", TRUE, TRUE, named,
                  {}, NoneId)
     ELSE Reply(route, token, 200, "", TRUE, TRUE, named, {a.tenantId},
                NewExportId)

CreateExport(token, body) ==
  /\ resp = Idle
  /\ NewExportId \notin DOMAIN exports
  /\ LET r == createExportResult(token, body) IN
     /\ resp' = r
     /\ exports' =
          IF r.status = 200
            THEN exports @@ (NewExportId :>
                   [reportId |-> body.reportId,
                    tenantId |-> users[token].tenantId, userId |-> token,
                    target |-> body.target, status |-> "pending",
                    externalId |-> NoneId, deepLink |-> NoneId,
                    errorMessage |-> NoneId])
            ELSE exports
     \* setTimeout(async () => {...}, 1000)
     /\ timers' = IF r.status = 200 THEN timers @@ (NewExportId :> 1)
                  ELSE timers
     /\ auditLogs' =
          IF r.status = 200
            THEN addAuditLog(auditLogs,
                   AuditEntry(users[token].tenantId, token, "export_created",
                              "export", NewExportId, Ip))
            ELSE auditLogs
  /\ UNCHANGED <<users, sessions, events, reports, snippets, inflight, parn, queueVars, recVars>>
  /\ AuditRoom

\* what processExport returns for the export's target
processExport(exportId, target) ==
  CASE target = "servicenow" -> [externalId |-> "INC", deepLink |-> "service-now"]
    [] target = "jira" -> [externalId |-> "HELP", deepLink |-> "atlassian"]
    [] target = "zendesk" -> [externalId |-> "ticket", deepLink |-> "zendesk"]
    [] OTHER -> [externalId |-> "file", deepLink |-> "storage"]

\* the row the timer callback leaves: the try block ran through, or
\* something in it threw and the catch block recorded the failure
\* the callback with an empty catch block
exportCallbackRowNoCatch(row, exportId, threw) ==
  IF ~threw
    THEN [row EXCEPT !.status = "completed",
                     !.externalId = processExport(exportId, row.target).externalId,
                     !.deepLink = processExport(exportId, row.target).deepLink]
    ELSE row

exportCallbackRow(row, exportId, threw) ==
  IF ~threw
    THEN [row EXCEPT !.status = "completed",
                     !.externalId = processExport(exportId, row.target).externalId,
                     !.deepLink = processExport(exportId, row.target).deepLink]
    ELSE [row EXCEPT !.status = "failed", !.errorMessage = "Unknown error"]

\* one setTimeout callback of the export runs to its end
ExportTimer(exportId, threw) ==
  /\ exportId \in DOMAIN timers
  /\ timers[exportId] > 0
  /\ exports' = [exports EXCEPT ![exportId] =
                   exportCallbackRow(@, exportId, threw)]
  /\ timers' = [timers EXCEPT ![exportId] = @ - 1]
  /\ UNCHANGED <<users, sessions, events, reports, snippets, auditLogs,
                 inflight, resp, parn, queueVars, recVars>>

GetExports(token) ==
  /\ resp = Idle
  /\ LET a == authenticate(token)
         route == "GET /exports"
     IN resp' =
          IF ~a.ok THEN AuthFail(route, token, TRUE, a)
          ELSE Reply(route, token, 200, "", TRUE, TRUE, NoneId,
                     UNION {exportTenants(e) :
                              e \in {x \in DOMAIN exports :
                                       exports[x].tenantId = a.tenantId}},
                     NoneId)
  /\ UNCHANGED <<users, sessions, events, reports, exports, snippets,
                 auditLogs, inflight, timers, parn, queueVars, recVars>>

GetExport(token, exportId) ==
  /\ resp = Idle
  /\ LET a == authenticate(token)
         route == "GET /exports/:exportId"
         named == TenantOfExport(exportId)
     IN resp' =
          IF ~a.ok THEN AuthFail(route, token, TRUE, a)
          ELSE IF ~findExportOfTenant(exportId, a.tenantId)
            THEN Reply(route, token, 404, "Export not found", TRUE, TRUE,
                       named, {}, exportId)
          ELSE Reply(route, token, 200, "", TRUE, TRUE, named,
                     exportTenants(exportId), exportId)
  /\ UNCHANGED <<users, sessions, events, reports, exports, snippets,
                 auditLogs, inflight, timers, parn, queueVars, recVars>>

\* POST /:exportId/retry up to its status check: the reply when the handler
\* returns there, Idle when it goes on to reset the export
retryStartResult(token, exportId) ==
  LET a == authenticate(token)
      route == "POST /exports/:exportId/retry"
      named == TenantOfExport(exportId)
  IN IF ~a.ok THEN AuthFail(route, token, TRUE, a)
     ELSE IF ~findExportOfTenant(exportId, a.tenantId)
       THEN Reply(route, token, 404, "Export not found", TRUE, TRUE, named,
                  {}, exportId)
     ELSE IF exports[exportId].status # "failed"
       THEN Reply(route, token, 400, "Can only retry failed exports", TRUE,
                  TRUE, named, {}, exportId)
     ELSE Idle

RetryStart(token, exportId) ==
  /\ resp = Idle
  /\ LET r == retryStartResult(token, exportId) IN
     /\ resp' = r
     /\ IF r = Idle
          THEN /\ FreeSlots # {}
               /\ inflight' = [inflight EXCEPT ![FreeSlot] =
                    [kind |-> "retry", token |-> token, id |-> exportId,
                     evs |-> <<>>]]
          ELSE inflight' = inflight
  /\ UNCHANGED <<users, sessions, events, reports, exports, snippets,
                 auditLogs, timers, parn, queueVars, recVars>>

\* the rest of the handler: reset the row, schedule the callback, reply
RetryFinish(slot) ==
  /\ resp = Idle
  /\ inflight[slot].kind = "retry"
  /\ timers[inflight[slot].id] < MaxTimers
  /\ LET h == inflight[slot] IN
     /\ exports' = [exports EXCEPT ![h.id].status = "pending",
                                   ![h.id].errorMessage = NoneId]
     /\ timers' = [timers EXCEPT ![h.id] = @ + 1]
     /\ resp' = Reply("POST /exports/:exportId/retry", h.token, 200, "", TRUE,
                      TRUE, TenantOfExport(h.id), {}, h.id)
  /\ inflight' = [inflight EXCEPT ![slot] = Free]
  /\ UNCHANGED <<users, sessions, events, reports, snippets, auditLogs, parn, queueVars, recVars>>

\* ------------------------------------------------------------ snippetRoutes
NewSnippetId == "snippet-1"
SnippetIds == {NewSnippetId}

TenantOfSnippet(snippetId) ==
  IF snippetId \in DOMAIN snippets THEN snippets[snippetId].tenantId
  ELSE NoneId

findSnippetOfTenant(snippetId, tenantId) ==
  snippetId \in DOMAIN snippets /\ snippets[snippetId].tenantId = tenantId

snippetTenants(snippetId) ==
  {snippets[snippetId].tenantId, TenantOfUser(snippets[snippetId].createdBy)}
  \ {NoneId}

\* the handler using the body without parsing it
createSnippetResultUnparsed(token, valid) ==
  LET a == authenticate(token)
      route == "POST /snippets"
  IN IF ~a.ok THEN AuthFail(route, token, valid, a)
     ELSE Reply(route, token, 200, "", TRUE, valid, NoneId, {a.tenantId},
                NewSnippetId)

createSnippetResult(token, valid) ==
  LET a == authenticate(token)
      route == "POST /snippets"
  IN IF ~a.ok THEN AuthFail(route, token, valid, a)
     ELSE IF ~valid
       THEN Reply(route, token, 400, "Validation error", TRUE, FALSE, NoneId,
                  {}, NoneId)
     ELSE Reply(route, token, 200, "", TRUE, TRUE, NoneId, {a.tenantId},
                NewSnippetId)

CreateSnippet(token, valid) ==
  /\ resp = Idle
  /\ NewSnippetId \notin DOMAIN snippets
  /\ LET r == createSnippetResult(token, valid) IN
     /\ resp' = r
     /\ snippets' =
          IF r.status = 200
            THEN snippets @@ (NewSnippetId :>
                   [tenantId |-> users[token].tenantId, createdBy |-> token,
                    title |-> "Title", isActive |-> TRUE, usageCount |-> 0])
            ELSE snippets
     /\ auditLogs' =
          IF r.status = 200
            THEN addAuditLog(auditLogs,
                   AuditEntry(users[token].tenantId, token, "snippet_created",
                              "snippet", NewSnippetId, Ip))
            ELSE auditLogs
  /\ UNCHANGED <<users, sessions, events, reports, exports, inflight, timers,
                 parn, queueVars, recVars>>
  /\ AuditRoom

GetSnippets(token) ==
  /\ resp = Idle
  /\ LET a == authenticate(token)
         route == "GET /snippets"
     IN resp' =
          IF ~a.ok THEN AuthFail(route, token, TRUE, a)
          ELSE Reply(route, token, 200, "", TRUE, TRUE, NoneId,
                     UNION {snippetTenants(x) :
                              x \in {y \in DOMAIN snippets :
                                       /\ snippets[y].tenantId = a.tenantId
                                       /\ snippets[y].isActive}},
                     NoneId)
  /\ UNCHANGED <<users, sessions, events, reports, exports, snippets,
                 auditLogs, inflight, timers, parn, queueVars, recVars>>

GetSnippet(token, snippetId) ==
  /\ resp = Idle
  /\ LET a == authenticate(token)
         route == "GET /snippets/:snippetId"
         named == TenantOfSnippet(snippetId)
     IN resp' =
          IF ~a.ok THEN AuthFail(route, token, TRUE, a)
          ELSE IF ~findSnippetOfTenant(snippetId, a.tenantId)
            THEN Reply(route, token, 404, "Snippet not found", TRUE, TRUE,
                       named, {}, snippetId)
          ELSE Reply(route, token, 200, "", TRUE, TRUE, named,
                     snippetTenants(snippetId), snippetId)
  /\ UNCHANGED <<users, sessions, events, reports, exports, snippets,
                 auditLogs, inflight, timers, parn, queueVars, recVars>>

\* "Only creator or admins can edit snippets"
maySnippet(a, snippetId) ==
  snippets[snippetId].createdBy = a.id \/ a.role = "admin"

patchSnippetResult(token, snippetId, body) ==
  LET a == authenticate(token)
      route == "PATCH /snippets/:snippetId"
      named == TenantOfSnippet(snippetId)
  IN IF ~a.ok THEN AuthFail(route, token, body.valid, a)
     ELSE IF ~body.valid
       THEN Reply(route, token, 400, "Validation error", TRUE, FALSE, named,
                  {}, snippetId)
     ELSE IF ~findSnippetOfTenant(snippetId, a.tenantId)
       THEN Reply(route, token, 404, "Snippet not found", TRUE, TRUE, named,
                  {}, snippetId)
     ELSE IF ~maySnippet(a, snippetId)
       THEN Reply(route, token, 403, "Insufficient permissions", TRUE, TRUE,
                  named, {}, snippetId)
     ELSE Reply(route, token, 200, "", TRUE, TRUE, named,
                {snippets[snippetId].tenantId}, snippetId)

PatchSnippet(token, snippetId, body) ==
  /\ resp = Idle
  /\ LET r == patchSnippetResult(token, snippetId, body) IN
     /\ resp' = r
     /\ snippets' = IF r.status = 200
                      THEN [snippets EXCEPT ![snippetId].title = body.title]
                      ELSE snippets
     /\ auditLogs' =
          IF r.status = 200
            THEN addAuditLog(auditLogs,
                   AuditEntry(users[token].tenantId, token, "snippet_updated",
                              "snippet", snippetId, Ip))
            ELSE auditLogs
  /\ UNCHANGED <<users, sessions, events, reports, exports, inflight, timers,
                 parn, queueVars, recVars>>
  /\ AuditRoom

useSnippetResult(token, snippetId) ==
  LET a == authenticate(token)
      route == "POST /snippets/:snippetId/use"
      named == TenantOfSnippet(snippetId)
  IN IF ~a.ok THEN AuthFail(route, token, TRUE, a)
     ELSE IF ~(findSnippetOfTenant(snippetId, a.tenantId)
               /\ snippets[snippetId].isActive)
       THEN Reply(route, token, 404, "Snippet not found", TRUE, TRUE, named,
                  {}, snippetId)
     ELSE Reply(route, token, 200, "", TRUE, TRUE, named, {}, snippetId)

UseSnippet(token, snippetId) ==
  /\ resp = Idle
  /\ LET r == useSnippetResult(token, snippetId) IN
     /\ resp' = r
     /\ r.status = 200 => snippets[snippetId].usageCount < MaxUsage
     /\ snippets' = IF r.status = 200
                      THEN [snippets EXCEPT ![snippetId].usageCount = @ + 1]
                      ELSE snippets
  /\ UNCHANGED <<users, sessions, events, reports, exports, auditLogs,
                 inflight, timers, parn, queueVars, recVars>>

deleteSnippetResult(token, snippetId) ==
  LET a == authenticate(token)
      route == "DELETE /snippets/:snippetId"
      named == TenantOfSnippet(snippetId)
  IN IF ~a.ok THEN AuthFail(route, token, TRUE, a)
     ELSE IF ~findSnippetOfTenant(snippetId, a.tenantId)
       THEN Reply(route, token, 404, "Snippet not found", TRUE, TRUE, named,
                  {}, snippetId)
     ELSE IF ~maySnippet(a, snippetId)
       THEN Reply(route, token, 403, "Insufficient permissions", TRUE, TRUE,
                  named, {}, snippetId)
     ELSE Reply(route, token, 200, "", TRUE, TRUE, named, {}, snippetId)

DeleteSnippet(token, snippetId) ==
  /\ resp = Idle
  /\ LET r == deleteSnippetResult(token, snippetId) IN
     /\ resp' = r
     /\ snippets' = IF r.status = 200
                      THEN [snippets EXCEPT ![snippetId].isActive = FALSE]
                      ELSE snippets
     /\ auditLogs' =
          IF r.status = 200
            THEN addAuditLog(auditLogs,
                   AuditEntry(users[token].tenantId, token, "snippet_deleted",
                              "snippet", snippetId, Ip))
            ELSE auditLogs
  /\ UNCHANGED <<users, sessions, events, reports, exports, inflight, timers,
                 parn, queueVars, recVars>>
  /\ AuditRoom

\* ------------------------------------------------------------------ server
\* the reply leaves; the server takes the next request
SendReply ==
  /\ resp # Idle
  /\ resp' = Idle
  /\ UNCHANGED <<users, sessions, events, reports, exports, snippets,
                 auditLogs, inflight, timers, parn, queueVars, recVars>>

\* requests the clients send
ReqTokens == {NoToken, "user-2", NewUserId}
RoleTokens == {NoToken, "user-1", "user-2", "user-3", NewUserId}
ReqSessionIds == {"session-1", NewSessionId}
ReqReportIds == {"report-1", "report-3"}
ReqEvents == {Event("asr_transcript", "wifi", Undef, Undef),
              Event("ui_click", "", "click", "Start menu")}
ReportBodies == {[valid |-> TRUE, problem |-> "Edited problem"],
                 [valid |-> FALSE, problem |-> ""]}
ExportBodies == {[valid |-> TRUE, reportId |-> "report-3",
                  target |-> "servicenow"],
                 [valid |-> TRUE, reportId |-> "report-1",
                  target |-> "servicenow"],
                 [valid |-> FALSE, reportId |-> "report-3",
                  target |-> "fax"]}
SnippetBodies == {[valid |-> TRUE, title |-> "Retitled"],
                  [valid |-> FALSE, title |-> ""]}

\* a query can fail validation only where the route parses it
QueryInputs(route) == IF HasQuerySchema(route) THEN BOOLEAN ELSE {TRUE}

\* ------------------------------------- TranscriptionQueue (asr-service)
MaxJobs == 3         \* jobs addJob accepts in a run
MaxClock == 2        \* hours the asr-service's clock advances
MaxLoops == 2        \* processor loops the model can hold

\* generateJobId: a fresh id per call; the model numbers the calls
JobIds == 1..MaxJobs
NoTime == -1
MaxAges == {0, 1}
\* processJob's simulated progress updates
ProgressUpdates == <<20, 40, 60, 80>>

\* the job addJob stores
NewJob(id) ==
  [id |-> id, status |-> "queued", progress |-> 0, result |-> Undef,
   error |-> Undef, completedAt |-> NoTime]

\* a processor loop at the top of its while (true), holding no job
LoopAtTop == [pc |-> "top", job |-> 0, step |-> 0]

\* a write through the job object a loop holds: it shows in the map while
\* the map still holds that object
setJob(id, row) == IF id \in DOMAIN jobs THEN [jobs EXCEPT ![id] = row]
                   ELSE jobs

\* the constructor has called startQueueProcessor: one loop, polling
InitQueue ==
  /\ jobs = <<>>
  /\ processingQueue = <<>>
  /\ isProcessing = TRUE
  /\ loops = <<LoopAtTop>>
  /\ accepted = <<>>
  /\ started = <<>>
  /\ now = 0

\* a push at the front instead
addJobQueueFront(queue, id) == <<id>> \o queue
\* addJob pushes at the back of processingQueue
addJobQueue(queue, id) == Append(queue, id)

\* addJob: no await, so it runs as one step
AddJob ==
  /\ Len(accepted) < MaxJobs
  /\ LET id == Len(accepted) + 1 IN
     /\ jobs' = jobs @@ (id :> NewJob(id))
     /\ processingQueue' = addJobQueue(processingQueue, id)
     /\ accepted' = Append(accepted, id)
  /\ UNCHANGED <<isProcessing, loops, started, now, apiVars, recVars>>

\* the call without its isProcessing guard
startQueueProcessorUnguarded(running) ==
  IF Len(running) < MaxLoops THEN Append(running, LoopAtTop) ELSE running

\* the loops running after a call of startQueueProcessor
startQueueProcessor(running) ==
  IF isProcessing THEN running ELSE Append(running, LoopAtTop)

\* a further call of startQueueProcessor
StartQueueProcessor ==
  /\ loops' = startQueueProcessor(loops)
  /\ isProcessing' = TRUE
  /\ UNCHANGED <<jobs, processingQueue, accepted, started, now, apiVars,
                 recVars>>

\* the loop finds the queue non-empty: shift, look the job up, and run
\* processJob up to its first await (an empty queue only makes it wait
\* a second and look again, which changes nothing)
LoopTake(l) ==
  /\ loops[l].pc = "top"
  /\ processingQueue # <<>>
  /\ LET jobId == Head(processingQueue) IN
     /\ processingQueue' = Tail(processingQueue)
     /\ IF jobId \in DOMAIN jobs
          THEN /\ jobs' = [jobs EXCEPT ![jobId].status = "processing",
                                       ![jobId].progress = 10]
               /\ loops' = [loops EXCEPT ![l] =
                              [pc |-> "progress", job |-> jobId, step |-> 1]]
               /\ started' = Append(started, jobId)
          ELSE UNCHANGED <<jobs, loops, started>>
  /\ UNCHANGED <<isProcessing, accepted, now, apiVars, recVars>>

\* one of processJob's progress updates
LoopProgress(l) ==
  /\ loops[l].pc = "progress"
  /\ LET h == loops[l] IN
     /\ jobs' = setJob(h.job, [jobs[h.job] EXCEPT
                                  !.progress = ProgressUpdates[h.step]])
     /\ loops' = [loops EXCEPT ![l] =
                    IF h.step < Len(ProgressUpdates)
                      THEN [h EXCEPT !.step = h.step + 1]
                      ELSE [h EXCEPT !.pc = "transcribe"]]
  /\ UNCHANGED <<processingQueue, isProcessing, accepted, started, now,
                 apiVars, recVars>>

\* the end of processJob with a catch that keeps a partial result
processJobEndPartial(job, threw) ==
  [job EXCEPT !.status = IF threw THEN "failed" ELSE "completed",
              !.progress = 100, !.result = "transcript",
              !.completedAt = now]

\* the job after transcribeFile returned (processJob's try) or threw
\* (its catch)
processJobEnd(job, threw) ==
  IF ~threw
    THEN [job EXCEPT !.status = "completed", !.progress = 100,
                     !.result = "transcript", !.completedAt = now]
    ELSE [job EXCEPT !.status = "failed",
                     !.error = "Failed to transcribe audio file",
                     !.completedAt = now]

\* a loop that ends when a job fails
LoopFinishStops(l, threw) ==
  /\ loops[l].pc = "transcribe"
  /\ LET h == loops[l] IN
     jobs' = setJob(h.job, processJobEnd(jobs[h.job], threw))
  /\ loops' = [loops EXCEPT ![l] =
                 IF threw THEN [LoopAtTop EXCEPT !.pc = "returned"]
                 ELSE LoopAtTop]
  /\ UNCHANGED <<processingQueue, isProcessing, accepted, started, now,
                 apiVars, recVars>>

\* transcribeFile returns or throws; processJob ends and the loop is back
\* at its top
LoopFinish(l, threw) ==
  /\ loops[l].pc = "transcribe"
  /\ LET h == loops[l] IN
     jobs' = setJob(h.job, processJobEnd(jobs[h.job], threw))
  /\ loops' = [loops EXCEPT ![l] = LoopAtTop]
  /\ UNCHANGED <<processingQueue, isProcessing, accepted, started, now,
                 apiVars, recVars>>

\* the comparison alone, without the test that completedAt is set
isOldUnset(job, maxAgeHours) == job.completedAt < now - maxAgeHours

\* job.completedAt && job.completedAt < cutoffTime
isOld(job, maxAgeHours) ==
  job.completedAt # NoTime /\ job.completedAt < now - maxAgeHours

cleanupOldJobs(maxAgeHours) ==
  [id \in {j \in DOMAIN jobs : ~isOld(jobs[j], maxAgeHours)} |-> jobs[id]]

CleanupOldJobs(maxAgeHours) ==
  /\ jobs' = cleanupOldJobs(maxAgeHours)
  /\ UNCHANGED <<processingQueue, isProcessing, loops, accepted, started,
                 now, apiVars, recVars>>

\* an hour passes
Tick ==
  /\ now < MaxClock
  /\ now' = now + 1
  /\ UNCHANGED <<jobs, processingQueue, isProcessing, loops, accepted,
                 started, apiVars, recVars>>

\* getQueueStats
getQueueStats ==
  LET count(st) == Cardinality({j \in DOMAIN jobs : jobs[j].status = st})
  IN [totalJobs |-> Cardinality(DOMAIN jobs),
      queuedJobs |-> count("queued"),
      processingJobs |-> count("processing"),
      completedJobs |-> count("completed"),
      failedJobs |-> count("failed")]

LoopStep ==
  \E l \in 1..MaxLoops :
    /\ l \in DOMAIN loops
    /\ \/ LoopTake(l)
       \/ LoopProgress(l)
       \/ \E threw \in BOOLEAN : LoopFinish(l, threw)

NextQueue ==
  \/ AddJob
  \/ StartQueueProcessor
  \/ LoopStep
  \/ \E maxAgeHours \in MaxAges : CleanupOldJobs(maxAgeHours)
  \/ Tick

\* ------------------------------------- RecordingSession (desktop app)
MaxRecSessions == 2  \* sessions the recorder creates in a run
MaxSent == 4         \* apiClient.addEvent calls in a run

EventMarkers == {"privacy_pause", "privacy_resume"}

ServerStatuses == {"none", "recording", "processing"}

AlreadyInProgress == "Recording session already in progress"
NoSessionInProgress == "No recording session in progress"

\* a RecordingSession as its constructor leaves it (sessionId 0: null,
\* startTime 0: null), its capture components stopped. made counts the
\* sessions the server has created for the recorder and server holds their
\* status there; ending is the id stop() handed to endSession, rejected
\* the message of the last call a guard rejected
NewRecordingSession(made, server) ==
  [sessionId |-> 0, isRecordingFlag |-> FALSE, isPausedFlag |-> FALSE,
   startTime |-> 0, isTracking |-> FALSE, screen |-> FALSE,
   audio |-> FALSE, includeAudio |-> TRUE, startPc |-> "idle",
   stopPc |-> "idle", ending |-> 0, rejected |-> "", made |-> made,
   server |-> server]

InitRecording ==
  /\ rec = NewRecordingSession(0, [s \in 1..MaxRecSessions |-> "none"])
  /\ sent = <<>>

\* cleanup that leaves the paused flag as it is
cleanupKeepsPaused(r) ==
  [r EXCEPT !.sessionId = 0, !.isRecordingFlag = FALSE, !.startTime = 0]

\* RecordingSession.cleanup
cleanup(r) ==
  [r EXCEPT !.sessionId = 0, !.isRecordingFlag = FALSE,
            !.isPausedFlag = FALSE, !.startTime = 0]

\* apiClient.addEvent(sessionId, event): the call is made at once, its
\* promise is not awaited
addEvent(type) == Append(sent, [sessionId |-> rec.sessionId, type |-> type])

\* startRecording of the main process: a new RecordingSession with the
\* stored capture settings, and its start() up to the await of
\* createSession
StartBegin(includeAudio) ==
  /\ ~rec.isRecordingFlag
  /\ rec.startPc = "idle"
  /\ rec.stopPc = "idle"
  /\ rec.made < MaxRecSessions
  /\ rec' = [NewRecordingSession(rec.made, rec.server)
               EXCEPT !.includeAudio = includeAudio,
                      !.startPc = "createSession"]
  /\ UNCHANGED <<sent, apiVars, queueVars>>

\* start() on a session that is recording: the guard throws
StartRejected ==
  /\ rec.isRecordingFlag
  /\ rec' = [rec EXCEPT !.rejected = AlreadyInProgress]
  /\ UNCHANGED <<sent, apiVars, queueVars>>

\* createSession answers: the server holds a new session in status
\* 'recording'; the session id, the start time and the recording flag are
\* set, then start() awaits the screen capture; or it fails and start()
\* cleans up
CreateSessionDone(ok) ==
  /\ rec.startPc = "createSession"
  /\ rec' = IF ok
              THEN [rec EXCEPT !.sessionId = rec.made + 1,
                               !.made = rec.made + 1,
                               !.server[rec.made + 1] = "recording",
                               !.startTime = 1,
                               !.isRecordingFlag = TRUE,
                               !.startPc = "screen"]
              ELSE [cleanup(rec) EXCEPT !.startPc = "idle"]
  /\ UNCHANGED <<sent, apiVars, queueVars>>

\* what start() does once the captures run: it hands its callback to the
\* event tracker and returns
startTracking(r) == [r EXCEPT !.isTracking = TRUE, !.startPc = "idle"]

\* screenCapture.start has returned, its recorder running: start() goes on
\* to the audio capture if the settings include audio, to the event
\* tracker otherwise; or it threw, no recorder started, and start() cleans
\* up
ScreenStarted(ok) ==
  /\ rec.startPc = "screen"
  /\ rec' = IF ok
              THEN IF rec.includeAudio
                     THEN [rec EXCEPT !.screen = TRUE, !.startPc = "audio"]
                     ELSE startTracking([rec EXCEPT !.screen = TRUE])
              ELSE [cleanup(rec) EXCEPT !.startPc = "idle"]
  /\ UNCHANGED <<sent, apiVars, queueVars>>

\* audioCapture.start has returned, its recorder running, and start()
\* starts the event tracker; or it threw and start() cleans up
AudioStarted(ok) ==
  /\ rec.startPc = "audio"
  /\ rec' = IF ok
              THEN startTracking([rec EXCEPT !.audio = TRUE])
              ELSE [cleanup(rec) EXCEPT !.startPc = "idle"]
  /\ UNCHANGED <<sent, apiVars, queueVars>>

\* the callback without its test of the paused flag
eventCallbackSendsPaused(r) == r.sessionId # 0 /\ r.isRecordingFlag

\* the callback start() hands to the EventTracker sends the event
eventCallbackSends(r) ==
  r.sessionId # 0 /\ r.isRecordingFlag /\ ~r.isPausedFlag

\* the EventTracker emits an event (its interval fired, or an event was
\* injected)
TrackerEvent(type) ==
  /\ rec.isTracking
  /\ Len(sent) < MaxSent
  /\ sent' = IF eventCallbackSends(rec) THEN addEvent(type) ELSE sent
  /\ UNCHANGED <<rec, apiVars, queueVars>>

\* togglePause (the pause hotkey)
TogglePause ==
  /\ Len(sent) < MaxSent
  /\ IF ~rec.isRecordingFlag
       THEN UNCHANGED <<rec, sent>>
       ELSE /\ rec' = [rec EXCEPT !.isPausedFlag = ~rec.isPausedFlag]
            /\ sent' = IF rec.sessionId # 0
                         THEN addEvent(IF ~rec.isPausedFlag
                                         THEN "privacy_pause"
                                         ELSE "privacy_resume")
                         ELSE sent
  /\ UNCHANGED <<apiVars, queueVars>>

\* markMilestone (the milestone hotkey)
MarkMilestone ==
  /\ Len(sent) < MaxSent
  /\ sent' = IF ~rec.isRecordingFlag \/ rec.sessionId = 0 \/ rec.isPausedFlag
               THEN sent
               ELSE addEvent("user_note")
  /\ UNCHANGED <<rec, apiVars, queueVars>>

\* stop() up to the await of screenCapture.stop
StopBegin ==
  /\ rec.isRecordingFlag
  /\ rec.sessionId # 0
  /\ rec.stopPc = "idle"
  /\ rec' = [rec EXCEPT !.stopPc = "capture"]
  /\ UNCHANGED <<sent, apiVars, queueVars>>

\* stop() on a session that is not recording: the guard throws
StopRejected ==
  /\ ~rec.isRecordingFlag \/ rec.sessionId = 0
  /\ rec' = [rec EXCEPT !.rejected = NoSessionInProgress]
  /\ UNCHANGED <<sent, apiVars, queueVars>>

StopFailures == {"none", "screen", "audio"}

\* the captures have stopped: the tracker is stopped and endSession is
\* called with the session id and awaited; or screenCapture.stop threw, or
\* audioCapture.stop threw after the screen recorder had stopped, and
\* stop() cleans up, the tracker running
StopCaptureDone(failed) ==
  /\ rec.stopPc = "capture"
  /\ rec' = CASE failed = "none" ->
                   [rec EXCEPT !.screen = FALSE, !.audio = FALSE,
                               !.isTracking = FALSE,
                               !.ending = rec.sessionId,
                               !.stopPc = "endSession"]
              [] failed = "screen" ->
                   [cleanup(rec) EXCEPT !.stopPc = "idle"]
              [] failed = "audio" ->
                   [cleanup(rec) EXCEPT !.screen = FALSE, !.stopPc = "idle"]
  /\ UNCHANGED <<sent, apiVars, queueVars>>

\* endSession has answered, the server's session now 'processing', or it
\* has failed (there is no session with a null id): stop() cleans up
\* either way
EndSessionDone(ok) ==
  /\ rec.stopPc = "endSession"
  /\ ok => rec.ending # 0
  /\ rec' = [cleanup(IF ok
                       THEN [rec EXCEPT !.server[rec.ending] = "processing"]
                       ELSE rec)
               EXCEPT !.ending = 0, !.stopPc = "idle"]
  /\ UNCHANGED <<sent, apiVars, queueVars>>

TrackerEvents == {"window_focus", "ui_click"}

NextRecording ==
  \/ \E includeAudio \in BOOLEAN : StartBegin(includeAudio)
  \/ StartRejected
  \/ \E ok \in BOOLEAN : CreateSessionDone(ok)
  \/ \E ok \in BOOLEAN : ScreenStarted(ok)
  \/ \E ok \in BOOLEAN : AudioStarted(ok)
  \/ \E type \in TrackerEvents : TrackerEvent(type)
  \/ TogglePause
  \/ MarkMilestone
  \/ StopBegin
  \/ StopRejected
  \/ \E failed \in StopFailures : StopCaptureDone(failed)
  \/ \E ok \in BOOLEAN : EndSessionDone(ok)

\* the state after start(): the seeded tables, nothing in flight
Init ==
  /\ users = SeedUsers
  /\ sessions = SeedSessions
  /\ events = [s \in DOMAIN SeedSessions |-> <<>>]
  /\ reports = SeedReports
  /\ exports = <<>>
  /\ snippets = <<>>
  /\ auditLogs = <<>>
  /\ inflight = [s \in 1..MaxInflight |-> Free]
  /\ timers = <<>>
  /\ resp = Idle
  /\ parn = [events |-> <<>>, done |-> TRUE, report |-> NoReport]
  /\ InitQueue
  /\ InitRecording

AuthRequest ==
  \/ Health
  \/ \E email \in LoginEmails, password \in Passwords : Login(email, password)
  \/ \E email \in RegisterEmails, password \in {"password", "short"},
        tenantId \in RegisterTenants : Register(email, password, tenantId)
  \/ \E token \in ReqTokens : Me(token)

UserRequest ==
  \/ \E token \in RoleTokens : GetUsers(token)
  \/ \E token \in RoleTokens, userId \in TargetUserIds : GetUser(token, userId)
  \/ \E token \in UserPatchTokens, userId \in TargetUserIds,
        body \in UserBodies : PatchUser(token, userId, body)

AnalyticsRequest ==
  \/ \E route \in AnalyticsPaths, token \in RoleTokens :
       \E queryValid \in QueryInputs(route) :
         AnalyticsRoute(route, token, queryValid)
  \/ \E route \in AuditPaths, token \in RoleTokens :
       \E queryValid \in QueryInputs(route) :
         AuditRoute(route, token, queryValid)

SessionRequest ==
  \/ \E token \in ReqTokens, valid \in BOOLEAN : CreateSession(token, valid)
  \/ \E token \in ReqTokens : GetSessions(token)
  \/ \E token \in ReqTokens, sessionId \in ReqSessionIds :
       GetSession(token, sessionId)
  \/ \E token \in ReqTokens, sessionId \in ReqSessionIds, valid \in BOOLEAN,
        event \in ReqEvents : AddEventStart(token, sessionId, valid, event)
  \/ \E slot \in 1..MaxInflight : AddEventFinish(slot)
  \/ \E token \in ReqTokens, sessionId \in ReqSessionIds, valid \in BOOLEAN :
       EndSession(token, sessionId, valid)
  \/ \E token \in ReqTokens, sessionId \in ReqSessionIds :
       StreamSession(token, sessionId)

ReportRequest ==
  \/ \E token \in ReqTokens, sessionId \in ReqSessionIds :
       GenerateStart(token, sessionId)
  \/ \E slot \in 1..MaxInflight : GenerateFinish(slot)
  \/ \E token \in ReqTokens : GetReports(token)
  \/ \E token \in ReqTokens, reportId \in ReqReportIds :
       GetReport(token, reportId)
  \/ \E token \in ReqTokens, reportId \in ReqReportIds, body \in ReportBodies :
       PatchReport(token, reportId, body)
  \/ \E token \in ReqTokens : DeleteReport(token, "report-1")

ExportRequest ==
  \/ \E token \in ReqTokens, body \in ExportBodies : CreateExport(token, body)
  \/ \E token \in ReqTokens : GetExports(token)
  \/ \E token \in ReqTokens, exportId \in ExportIds : GetExport(token, exportId)
  \/ \E token \in ReqTokens, exportId \in ExportIds :
       RetryStart(token, exportId)
  \/ \E slot \in 1..MaxInflight : RetryFinish(slot)

TimerStep == \E exportId \in ExportIds, threw \in BOOLEAN :
               ExportTimer(exportId, threw)

SnippetRequest ==
  \/ \E token \in ReqTokens, valid \in BOOLEAN : CreateSnippet(token, valid)
  \/ \E token \in ReqTokens : GetSnippets(token)
  \/ \E token \in RoleTokens, snippetId \in SnippetIds :
       GetSnippet(token, snippetId)
  \/ \E token \in RoleTokens, snippetId \in SnippetIds,
        body \in SnippetBodies : PatchSnippet(token, snippetId, body)
  \/ \E token \in ReqTokens, snippetId \in SnippetIds :
       UseSnippet(token, snippetId)
  \/ \E token \in RoleTokens, snippetId \in SnippetIds :
       DeleteSnippet(token, snippetId)

Next ==
  \/ AuthRequest
  \/ UserRequest
  \/ AnalyticsRequest
  \/ SessionRequest
  \/ ReportRequest
  \/ ExportRequest
  \/ TimerStep
  \/ SnippetRequest
  \/ SendReply

Spec == Init /\ [][Next]_vars

\* ================================================================== claims
tables == <<users, sessions, events, reports, exports, snippets, auditLogs,
            timers>>

\* a step in which a request is answered
Answered == resp = Idle /\ resp' # Idle
\* a step that resumes a handler suspended at an await
Resumed == \E s \in DOMAIN inflight :
             inflight[s].kind # "free" /\ inflight'[s].kind = "free"

TenantRoutes ==
  {"POST /sessions", "GET /sessions", "GET /sessions/:sessionId",
   "POST /sessions/:sessionId/events", "PATCH /sessions/:sessionId/end",
   "GET /sessions/:sessionId/stream",
   "POST /reports/:sessionId/generate", "GET /reports",
   "GET /reports/:reportId", "PATCH /reports/:reportId",
   "DELETE /reports/:reportId",
   "POST /exports", "GET /exports", "GET /exports/:exportId",
   "POST /exports/:exportId/retry",
   "POST /snippets", "GET /snippets", "GET /snippets/:snippetId",
   "PATCH /snippets/:snippetId", "POST /snippets/:snippetId/use",
   "DELETE /snippets/:snippetId",
   "GET /users", "GET /users/:userId", "PATCH /users/:userId"}

\* ids of the rows a step adds to, removes from or rewrites in a table
changedRows(before, after) ==
  {id \in DOMAIN before \cup DOMAIN after :
     \/ id \notin DOMAIN before
     \/ id \notin DOMAIN after
     \/ before[id] # after[id]}

\* every row the step touches belongs to tenant t
touchesOnly(t) ==
  /\ \A id \in changedRows(users, users') :
       (id \in DOMAIN users => users[id].tenantId = t)
       /\ (id \in DOMAIN users' => users'[id].tenantId = t)
  /\ \A id \in changedRows(sessions, sessions') :
       (id \in DOMAIN sessions => sessions[id].tenantId = t)
       /\ (id \in DOMAIN sessions' => sessions'[id].tenantId = t)
  /\ \A id \in changedRows(events, events') :
       id \in DOMAIN sessions' /\ sessions'[id].tenantId = t
  /\ \A id \in changedRows(reports, reports') :
       (id \in DOMAIN reports => reports[id].tenantId = t)
       /\ (id \in DOMAIN reports' => reports'[id].tenantId = t)
  /\ \A id \in changedRows(exports, exports') :
       (id \in DOMAIN exports => exports[id].tenantId = t)
       /\ (id \in DOMAIN exports' => exports'[id].tenantId = t)
  /\ \A id \in changedRows(snippets, snippets') :
       (id \in DOMAIN snippets => snippets[id].tenantId = t)
       /\ (id \in DOMAIN snippets' => snippets'[id].tenantId = t)

\* the reply is to an authenticated request to a tenant-scoped route
tenantRequest(r) == r.route \in TenantRoutes /\ r.handler

\* the request names a row of a tenant other than the requester's
namesOtherTenant(r) ==
  r.named # NoneId /\ r.named # users[r.token].tenantId

\* GET and PATCH /users/:userId check the requester's role before they
\* look the user up
passesRoleCheck(r) ==
  /\ r.route = "GET /users/:userId" =>
       users[r.token].role \in {"manager", "admin"}
  /\ r.route = "PATCH /users/:userId" => users[r.token].role = "admin"

\* C1 as stated: every record an authenticated request to the sessions,
\* reports, exports, snippets and users routes returns or modifies belongs
\* to the requester's tenant, and a request that names a record of another
\* tenant is answered 404 and leaves that record unchanged.
C1_AsStated ==
  [][(Answered /\ tenantRequest(resp')) =>
       /\ resp'.ret \subseteq {users[resp'.token].tenantId}
       /\ touchesOnly(users[resp'.token].tenantId)
       /\ namesOtherTenant(resp') => resp'.status = 404]_vars

\* C1 (amended): every record such a request returns or modifies belongs to
\* the requester's tenant; a request that names a record of another tenant
\* gets no data and changes nothing, and it is answered 404 whenever its
\* body is valid and it passes the users routes' role check (400 and 403
\* come first otherwise); the websocket stream route looks nothing up and
\* accepts any session id.
C1_TenantIsolation ==
  [][(Answered /\ tenantRequest(resp')) =>
       /\ resp'.ret \subseteq {users[resp'.token].tenantId}
       /\ touchesOnly(users[resp'.token].tenantId)
       /\ namesOtherTenant(resp') =>
            /\ resp'.ret = {}
            /\ UNCHANGED tables
            /\ resp'.route # "GET /sessions/:sessionId/stream" =>
                 /\ resp'.status \in {400, 403, 404}
                 /\ resp'.status = 400 => ~resp'.valid
                 /\ resp'.status = 403 => ~passesRoleCheck(resp')
                 /\ (resp'.valid /\ passesRoleCheck(resp')) =>
                      resp'.status = 404]_vars

\* a user of the second tenant asked to edit a report of the first
C1_Witness ==
  /\ resp.route = "PATCH /reports/:reportId"
  /\ resp.status = 404
  /\ resp.token \in DOMAIN users
  /\ resp.named = T1
  /\ users[resp.token].tenantId = T2

\* ------------------------------------ the role-gated routes on their own
\* the requests that create users, change roles and reach the gated routes
NextRBAC ==
  \/ AuthRequest
  \/ UserRequest
  \/ AnalyticsRequest
  \/ SendReply

SpecRBAC == Init /\ [][NextRBAC]_vars

\* C2: the analytics routes and GET /users run their handler only for a
\* manager or admin, the audit routes only for an admin or auditor; an
\* authenticated requester with another role gets 403 and no data.
ManagerRoutes == AnalyticsPaths \cup {"GET /users"}
C2_RBAC ==
  /\ (resp.route \in ManagerRoutes /\ resp.handler) =>
       /\ resp.token \in DOMAIN users
       /\ users[resp.token].role \in {"manager", "admin"}
  /\ (resp.route \in AuditPaths /\ resp.handler) =>
       /\ resp.token \in DOMAIN users
       /\ users[resp.token].role \in {"admin", "auditor"}
  /\ (/\ resp.route \in ManagerRoutes \cup AuditPaths
      /\ resp.token \in DOMAIN users
      /\ users[resp.token].isActive
      /\ users[resp.token].role \notin
           (IF resp.route \in AuditPaths THEN {"admin", "auditor"}
            ELSE {"manager", "admin"})) =>
       /\ resp.status = 403
       /\ ~resp.handler
       /\ resp.ret = {}

\* a manager is refused the audit log, and an auditor reads it
C2_Witness ==
  /\ resp.route \in AuditPaths
  /\ resp.token \in DOMAIN users
  /\ \/ resp.status = 403 /\ users[resp.token].role = "manager"
     \/ resp.status = 200 /\ users[resp.token].role = "auditor"
  /\ \E u \in DOMAIN users : users[u].role = "auditor"

PublicRoutes == {"GET /health", "POST /auth/login", "POST /auth/register"}

\* the token is a valid token of an existing, active user
validToken(token) == token \in DOMAIN users /\ users[token].isActive

requiresToken(routes) ==
  /\ (Answered /\ ~Resumed /\ resp'.route \in routes) =>
       /\ resp'.handler => validToken(resp'.token)
       /\ ~validToken(resp'.token) =>
            /\ resp'.status = 401
            /\ UNCHANGED <<tables, inflight>>
  /\ \A s \in DOMAIN inflight :
       (inflight[s].kind = "free" /\ inflight'[s].kind # "free") =>
         validToken(inflight'[s].token)

AllRoutes == TenantRoutes \cup AnalyticsPaths \cup AuditPaths
             \cup {"GET /auth/me"} \cup PublicRoutes

forbiddenPatch(token, userId, body) ==
  /\ validToken(token)
  /\ users[token].role # "admin"
  /\ body.valid
  /\ token # userId \/ body.role # Undef \/ body.isActive # Undef

AuditedRoutes ==
  {"GET /reports/:reportId", "PATCH /reports/:reportId",
   "DELETE /reports/:reportId", "POST /reports/:sessionId/generate",
   "POST /exports", "POST /exports/:exportId/retry",
   "POST /sessions", "PATCH /sessions/:sessionId/end",
   "POST /snippets", "PATCH /snippets/:snippetId",
   "DELETE /snippets/:snippetId", "PATCH /users/:userId",
   "POST /auth/login"}

\* the request succeeded at something C5 lists (for the generate route: a
\* report was generated)
auditedSuccess ==
  /\ Answered
  /\ resp'.route \in AuditedRoutes
  /\ resp'.status = 200
  /\ resp'.route = "POST /reports/:sessionId/generate" => reports' # reports

\* C5: every request that successfully views, edits, deletes or generates
\* a report, creates or retries an export, creates or ends a session,
\* creates, updates or deletes a snippet, updates a user or logs in appends
\* one audit entry with the acting user, the resource id and the request IP.
C5_AuditTrail ==
  [][auditedSuccess =>
       /\ Len(auditLogs') = Len(auditLogs) + 1
       /\ LET e == auditLogs'[Len(auditLogs')] IN
            /\ e.userId = IF resp'.route = "POST /auth/login" THEN resp'.rid
                          ELSE resp'.token
            /\ e.resourceId = resp'.rid
            /\ e.resourceType # ""
            /\ e.action # ""
            /\ e.ipAddress = Ip]_vars

\* C6: the audit log only grows: every step leaves the entries that
\* existed in place, with the same field values.
C6_AuditImmutable ==
  [][/\ Len(auditLogs') >= Len(auditLogs)
     /\ SubSeq(auditLogs', 1, Len(auditLogs)) = auditLogs]_vars

\* the log holds entries of two different requests
C6_Witness ==
  /\ Len(auditLogs) >= 2
  /\ auditLogs[1] # auditLogs[2]

reportsOfSession(sessionId) ==
  {r \in DOMAIN reports : reports[r].sessionId = sessionId}

\* C7: whatever generate requests were made for a session, interleaved or
\* not, at most one report exists for it, and a generate request is
\* answered with that report.
C7_OneReportPerSession ==
  /\ \A sessionId \in SessionIds :
       Cardinality(reportsOfSession(sessionId)) <= 1
  /\ (resp.route = "POST /reports/:sessionId/generate" /\ resp.status = 200)
       => /\ resp.rid \in DOMAIN reports
          /\ reportsOfSession(reports[resp.rid].sessionId) = {resp.rid}

\* a session without report was generated twice at once
C7_Witness ==
  \E sessionId \in SessionIds : Cardinality(reportsOfSession(sessionId)) = 2

\* ------------------------------------------------ the composer on its own
InitPARN ==
  /\ users = SeedUsers
  /\ sessions = SeedSessions
  /\ events = [s \in DOMAIN SeedSessions |-> <<>>]
  /\ reports = SeedReports
  /\ exports = <<>>
  /\ snippets = <<>>
  /\ auditLogs = <<>>
  /\ inflight = [s \in 1..MaxInflight |-> Free]
  /\ timers = <<>>
  /\ resp = Idle
  /\ parn \in {[events |-> evs, done |-> FALSE, report |-> NoReport] :
                 evs \in SeqsUpTo(ComposerEvents, MaxLen)}
  /\ InitQueue
  /\ InitRecording

NextPARN == Compose

SpecPARN == InitPARN /\ [][NextPARN]_vars

\* C8: whatever the session's events, the report generatePARNReport
\* returns has a non-empty problem, at least one action step, a non-empty
\* result and at least one next step.
C8_PARNComplete ==
  parn.done =>
    /\ parn.report.problem # ""
    /\ Len(parn.report.actions) >= 1
    /\ parn.report.result # ""
    /\ Len(parn.report.nextSteps) >= 1

\* a report composed for a session with events but no transcript text and
\* no UI event
C8_Witness ==
  /\ parn.done
  /\ parn.events # <<>>
  /\ \A i \in 1..Len(parn.events) :
       \/ parn.events[i].type = "window_focus"
       \/ parn.events[i].type = "asr_transcript" /\ parn.events[i].text = ""
  /\ Len(parn.report.actions) = 3

\* C9 as stated: a request whose body or query fails the route's schema is
\* answered 400 'Validation error' and creates or modifies no record and
\* adds no audit entry.
C9_AsStated ==
  [][(Answered /\ ~resp'.valid) =>
       /\ resp'.status = 400
       /\ resp'.error = "Validation error"
       /\ UNCHANGED <<tables, inflight>>]_vars

\* C9 (amended): such a request creates or modifies no record and adds no
\* audit entry; it is answered 400 'Validation error' when it reaches the
\* route handler, and 401 or 403 when the authenticate or requireRole
\* hook stops it before the handler parses anything.
C9_ValidationErrors ==
  [][(Answered /\ ~resp'.valid) =>
       /\ UNCHANGED <<tables, inflight>>
       /\ resp'.handler =>
            resp'.status = 400 /\ resp'.error = "Validation error"
       /\ ~resp'.handler =>
            /\ resp'.status \in {401, 403}
            /\ resp'.status = 401 <=> ~validToken(resp'.token)]_vars

\* an authenticated admin sent a PATCH /users body that fails the schema
C9_Witness ==
  /\ resp.route = "PATCH /users/:userId"
  /\ resp.status = 400
  /\ resp.error = "Validation error"
  /\ ~resp.valid

\* ------------------------------------------------- the export flow, fair
NextExport ==
  \/ \E token \in ReqTokens, valid \in BOOLEAN : CreateSession(token, valid)
  \/ \E token \in ReqTokens, sessionId \in ReqSessionIds :
       GenerateStart(token, sessionId)
  \/ \E slot \in 1..MaxInflight : GenerateFinish(slot)
  \/ ExportRequest
  \/ TimerStep
  \/ SendReply

\* a timer that is due runs its callback
SpecExport == Init /\ [][NextExport]_vars /\ WF_vars(TimerStep)

\* the step creates export e / runs a callback of export e
created(e) == e \notin DOMAIN exports /\ e \in DOMAIN exports'
callbackRan(e) == e \in DOMAIN timers /\ timers'[e] < timers[e]

C11_RetryWithBackoff ==
  [][\A e \in ExportIds :
       (callbackRan(e) /\ exports[e].status = "pending") =>
          \/ exports'[e].status = "completed"
          \/ /\ exports'[e].status = "pending"
             /\ timers'[e] >= timers[e]]_vars

\* the first attempt failed, the record says so, and nothing is scheduled
C11_Witness ==
  \E e \in DOMAIN exports :
    /\ exports[e].status = "failed"
    /\ exports[e].errorMessage = "Unknown error"
    /\ timers[e] = 0
    /\ inflight = [s \in 1..MaxInflight |-> Free]

\* ---------------------------------------------------------------------
\* Sessions and report composition.  Steps the server takes by itself
\* are the rest of a handler suspended at an await and the sending of
\* the reply; the event loop runs both, hence the weak fairness.
NextSession ==
  \/ \E token \in ReqTokens, valid \in BOOLEAN : CreateSession(token, valid)
  \/ \E token \in ReqTokens, sessionId \in ReqSessionIds, valid \in BOOLEAN :
       EndSession(token, sessionId, valid)
  \/ \E token \in ReqTokens, sessionId \in ReqSessionIds :
       GenerateStart(token, sessionId)
  \/ \E slot \in 1..MaxInflight : GenerateFinish(slot)
  \/ \E token \in ReqTokens, sessionId \in ReqSessionIds, valid \in BOOLEAN,
        event \in ReqEvents : AddEventStart(token, sessionId, valid, event)
  \/ \E slot \in 1..MaxInflight : AddEventFinish(slot)
  \/ SendReply

SpecSession ==
  /\ Init
  /\ [][NextSession]_vars
  /\ WF_vars(\E slot \in 1..MaxInflight : GenerateFinish(slot))
  /\ WF_vars(\E slot \in 1..MaxInflight : AddEventFinish(slot))
  /\ WF_vars(SendReply)

\* C13: once a session has been ended (status 'processing'), a report
\* for it is eventually stored and the session reaches 'completed',
\* without a further client request.
C13_EndTriggersComposition ==
  \A s \in SessionIds :
    (s \in DOMAIN sessions /\ sessions[s].status = "processing")
      ~> (/\ s \in DOMAIN sessions
          /\ sessions[s].status = "completed"
          /\ reportsOfSession(s) # {})

\* an ended session with no report, no handler in flight and no reply
\* outstanding: the server has nothing left to do for it
C13_Witness ==
  /\ NewSessionId \in DOMAIN sessions
  /\ sessions[NewSessionId].status = "processing"
  /\ reportsOfSession(NewSessionId) = {}
  /\ inflight = [s \in 1..MaxInflight |-> Free]
  /\ resp = Idle

\* ---------------------------------------------------------------------
\* POST /exports/:exportId/retry

\* the step answers a retry request for export e past the lookup
retryAnswered(e) ==
  /\ Answered
  /\ resp'.route = "POST /exports/:exportId/retry"
  /\ resp'.rid = e
  /\ resp'.status \in {200, 400}

\* C15: a retry is accepted only when the export's status is 'failed',
\* and then sets 'pending', clears errorMessage and schedules the
\* processing; for any other status it answers 400 'Can only retry
\* failed exports', schedules nothing and leaves the record unchanged.
C15_RetryPrecondition ==
  [][\A e \in ExportIds :
       retryAnswered(e) =>
         IF exports[e].status = "failed"
           THEN /\ resp'.status = 200
                /\ exports'[e].status = "pending"
                /\ exports'[e].errorMessage = NoneId
                /\ timers'[e] = timers[e] + 1
           ELSE /\ resp'.status = 400
                /\ resp'.error = "Can only retry failed exports"
                /\ exports' = exports
                /\ timers' = timers]_vars

\* two retries of one export were accepted and both callbacks are pending
C15_Witness ==
  /\ resp.route = "POST /exports/:exportId/retry"
  /\ resp.status = 200
  /\ resp.rid \in DOMAIN exports
  /\ exports[resp.rid].status = "pending"
  /\ timers[resp.rid] = 2

\* C16: once an export's status is 'completed', no later request and no
\* pending timer callback changes its status again.
C16_CompletedTerminal ==
  [][\A e \in ExportIds :
       (e \in DOMAIN exports /\ exports[e].status = "completed") =>
          exports'[e].status = "completed"]_vars

\* a completed export for which a callback or the write of an accepted
\* retry is still outstanding
C16_Witness ==
  \E e \in DOMAIN exports :
    /\ exports[e].status = "completed"
    /\ \/ timers[e] > 0
       \/ \E s \in 1..MaxInflight :
            inflight[s].kind = "retry" /\ inflight[s].id = e

\* ---------------------------------------------------------------------
\* TranscriptionQueue.  The processor loop is an async function of a live
\* process: its next step is taken once the await it stands at settles.
SpecQueue == Init /\ [][NextQueue]_vars /\ WF_vars(LoopStep)

\* C12: jobs start processing in exactly the order in which addJob
\* accepted them: at every moment the jobs started so far are the first
\* jobs accepted, in the same order, and a job taken from the queue is
\* the oldest job not yet started.
C12_QueueFIFO ==
  /\ Len(started) <= Len(accepted)
  /\ \A i \in 1..Len(started) : started[i] = accepted[i]
  /\ processingQueue =
       [i \in 1..(Len(accepted) - Len(started)) |-> accepted[Len(started) + i]]

\* three jobs were accepted while the loop was busy and all were started
C12_Witness ==
  /\ Len(started) = MaxJobs
  /\ \E j \in DOMAIN jobs : jobs[j].status = "processing"
  /\ \E j \in DOMAIN jobs : jobs[j].status \in {"completed", "failed"}

\* C17: in every reachable state at most one job has status 'processing'
\* and exactly the one processor loop the constructor started is running
\* (a further call of startQueueProcessor starts none); the job being
\* processed is the one that loop holds.
C17_SingleWorker ==
  /\ getQueueStats.processingJobs <= 1
  /\ Len(loops) = 1
  /\ isProcessing
  /\ \A j \in DOMAIN jobs :
       jobs[j].status = "processing" =>
         loops[1].job = j /\ loops[1].pc \in {"progress", "transcribe"}

\* the loop is busy with one job while two more wait in the queue
C17_Witness ==
  /\ getQueueStats.processingJobs = 1
  /\ getQueueStats.queuedJobs = 2
  /\ Len(processingQueue) = 2
  /\ loops[1].pc = "transcribe"

\* the status changes a job may make
JobSteps == {<<"queued", "processing">>, <<"processing", "completed">>,
             <<"processing", "failed">>}

\* C18: a job's status changes only along queued -> processing ->
\* completed or queued -> processing -> failed; 'completed' and 'failed'
\* are terminal and such a job is never processed a second time; a job
\* has a result exactly when its status is 'completed'.
C18_JobLifeCycle ==
  /\ [](\A j \in DOMAIN jobs :
          /\ jobs[j].status \in {"queued", "processing", "completed", "failed"}
          /\ jobs[j].result # Undef <=> jobs[j].status = "completed"
          /\ jobs[j].status \in {"completed", "failed"} =>
               /\ \A i \in 1..Len(processingQueue) : processingQueue[i] # j
               /\ \A l \in DOMAIN loops : loops[l].job # j)
  /\ [](\A i, k \in 1..Len(started) : started[i] = started[k] => i = k)
  /\ [][\A j \in DOMAIN jobs :
          j \in DOMAIN jobs' =>
            \/ jobs'[j].status = jobs[j].status
            \/ <<jobs[j].status, jobs'[j].status>> \in JobSteps]_vars

\* one job failed without a result, one completed with its result, and
\* the loop has taken up the third
C18_Witness ==
  \E i, j, k \in DOMAIN jobs :
    /\ jobs[i].status = "failed" /\ jobs[i].result = Undef
    /\ jobs[i].error # Undef
    /\ jobs[j].status = "completed" /\ jobs[j].result = "transcript"
    /\ jobs[k].status = "processing"

\* C19: every job accepted by addJob eventually reaches 'completed' or
\* 'failed', given that transcribeFile returns or throws and the loop
\* keeps being scheduled; the step in which a job fails leaves the loop
\* at its top, ready for the jobs queued after it.
C19_JobProgress ==
  /\ \A j \in JobIds :
       (j \in DOMAIN jobs /\ jobs[j].status \in {"queued", "processing"})
         ~> (j \in DOMAIN jobs /\ jobs[j].status \in {"completed", "failed"})
  /\ [][\A j \in DOMAIN jobs :
          (j \in DOMAIN jobs' /\ jobs[j].status = "processing"
             /\ jobs'[j].status = "failed") =>
             \E l \in DOMAIN loops' : loops'[l].pc = "top"]_vars

\* the first job failed and a job queued behind it was completed
C19_Witness ==
  \E i, j \in DOMAIN jobs :
    /\ i < j
    /\ jobs[i].status = "failed"
    /\ jobs[j].status = "completed"
    /\ jobs[j].completedAt >= jobs[i].completedAt

\* C20: a cleanupOldJobs step removes exactly the jobs whose completedAt
\* is earlier than now minus maxAgeHours and leaves every other job and
\* the queue unchanged; it removes no 'queued' or 'processing' job, so
\* every id in the processing queue resolves to a job in the jobs map.
C20_CleanupFrame ==
  /\ [](\A i \in 1..Len(processingQueue) : processingQueue[i] \in DOMAIN jobs)
  /\ [][DOMAIN jobs' # DOMAIN jobs /\ DOMAIN jobs' \subseteq DOMAIN jobs =>
          /\ \E maxAgeHours \in MaxAges :
               DOMAIN jobs \ DOMAIN jobs' =
                 {j \in DOMAIN jobs :
                    /\ jobs[j].completedAt # NoTime
                    /\ jobs[j].completedAt < now - maxAgeHours}
          /\ \A j \in DOMAIN jobs \ DOMAIN jobs' :
               jobs[j].status \in {"completed", "failed"}
          /\ \A j \in DOMAIN jobs' : jobs'[j] = jobs[j]
          /\ UNCHANGED <<processingQueue, loops, isProcessing>>]_vars

\* an old job is gone, a job completed later was kept, and a queued job
\* still waits
C20_Witness ==
  /\ \E i \in 1..Len(accepted) : accepted[i] \notin DOMAIN jobs
  /\ \E j \in DOMAIN jobs : jobs[j].status = "completed"
  /\ processingQueue # <<>>
  /\ jobs[Head(processingQueue)].status = "queued"

\* ---------------------------------------------------------------------
\* The desktop recorder: one RecordingSession at a time, driven by the
\* main process's hotkeys and tray menu.
SpecRecording == Init /\ [][NextRecording]_vars

\* the privacy markers sent for session s, in order
markersOf(s) ==
  SelectSeq(sent, LAMBDA e : e.sessionId = s /\ e.type \in EventMarkers)

\* C14: while the RecordingSession is paused no tracker event and no
\* milestone note is sent; between a privacy_pause and the following
\* privacy_resume of a session nothing else is sent for it; and a
\* session's markers alternate, starting with privacy_pause.
C14_PrivacyPause ==
  /\ [][(rec.isPausedFlag /\ sent' # sent) =>
          sent'[Len(sent')].type \in EventMarkers]_vars
  /\ [](\A i, j \in 1..Len(sent) :
          (/\ i < j
           /\ sent[i].type = "privacy_pause"
           /\ sent[j].sessionId = sent[i].sessionId
           /\ sent[j].type \notin EventMarkers) =>
             \E k \in (i + 1)..(j - 1) :
               /\ sent[k].sessionId = sent[i].sessionId
               /\ sent[k].type = "privacy_resume")
  /\ [](\A s \in 1..MaxRecSessions :
          \A i \in 1..Len(markersOf(s)) :
            markersOf(s)[i].type =
              IF i % 2 = 1 THEN "privacy_pause" ELSE "privacy_resume")

\* a session was paused and resumed, with a tracker event before the
\* pause and a milestone after the resume, while the tracker runs
C14_Witness ==
  /\ Len(sent) = 4
  /\ sent[1].type \in TrackerEvents
  /\ sent[2].type = "privacy_pause"
  /\ sent[3].type = "privacy_resume"
  /\ sent[4].type = "user_note"
  /\ \A i \in 1..4 : sent[i].sessionId = 1
  /\ rec.isTracking

\* ---------------------------------------------------------------------
\* POST /sessions/:sessionId/events

\* the step stores an event for session s
eventStored(s) ==
  s \in DOMAIN events /\ s \in DOMAIN events' /\ events'[s] # events[s]

\* C21: an event is stored only for a session of the requester's tenant
\* whose status is 'recording'; a request for a session in another status
\* is answered 400 'Session is not in recording state' and stores
\* nothing, so no event is added to a session after it was ended.
C21_EventsWhileRecording ==
  [][/\ \A s \in SessionIds :
          eventStored(s) =>
            /\ sessions[s].status = "recording"
            /\ resp'.route = "POST /sessions/:sessionId/events"
            /\ resp'.status = 200
            /\ users[resp'.token].tenantId = sessions[s].tenantId
     /\ (/\ Answered
         /\ resp'.route = "POST /sessions/:sessionId/events"
         /\ resp'.error = "Session is not in recording state") =>
            /\ resp'.status = 400
            /\ sessions[resp'.rid].status # "recording"
            /\ events' = events]_vars

\* an ended session that holds an event, with no insert outstanding
C21_Witness ==
  /\ NewSessionId \in DOMAIN sessions
  /\ sessions[NewSessionId].status = "processing"
  /\ Len(events[NewSessionId]) = 1
  /\ resp.route = "POST /sessions/:sessionId/events"
  /\ resp.status = 200

\* the place of a session status in recording -> processing -> completed
statusRank(status) ==
  CASE status = "recording" -> 1
    [] status = "processing" -> 2
    [] OTHER -> 3

\* C22: a session's status follows recording -> processing -> completed
\* and never returns to an earlier status; a 'completed' session is never
\* set back to 'processing' or 'recording'.
C22_StatusForward ==
  [][\A s \in DOMAIN sessions :
       statusRank(sessions'[s].status) >= statusRank(sessions[s].status)]_vars

\* a seeded session that was 'completed' is 'processing' after an end
\* request answered 200
C22_Witness ==
  /\ sessions["session-1"].status = "processing"
  /\ resp.route = "PATCH /sessions/:sessionId/end"
  /\ resp.status = 200
  /\ resp.rid = "session-1"

\* ---------------------------------------------------------------------
\* Deactivated users

sessionState(r) ==
  <<r.sessionId, r.isRecordingFlag, r.isPausedFlag, r.startTime>>

apiCalls(r) == <<r.startPc, r.stopPc, r.ending, r.made, r.server>>

recIdle(r) ==
  /\ ~r.isRecordingFlag
  /\ ~r.isPausedFlag
  /\ r.sessionId = 0
  /\ r.startTime = 0

\* C24: start() is let in only on a session that is not recording and
\* rejects with 'Recording session already in progress' only on one that
\* is; stop() is let in only on a recording session and rejects with 'No
\* recording session in progress' only on one that is not; a rejected call
\* changes neither sessionId, the recording and paused flags nor the start
\* time and calls the API not at all; and when stop() returns or throws
\* the session is idle: not recording, not paused, sessionId and start
\* time null
C24_Guards ==
  [][/\ (rec.startPc = "idle" /\ rec'.startPc # "idle")
          => ~rec.isRecordingFlag
     /\ (rec.stopPc = "idle" /\ rec'.stopPc # "idle")
          => rec.isRecordingFlag /\ rec.sessionId # 0
     /\ rec'.rejected # rec.rejected /\ rec'.rejected # ""
          => /\ rec'.rejected = AlreadyInProgress => rec.isRecordingFlag
             /\ rec'.rejected = NoSessionInProgress
                  => ~rec.isRecordingFlag \/ rec.sessionId = 0
             /\ rec'.rejected \in {AlreadyInProgress, NoSessionInProgress}
             /\ sessionState(rec') = sessionState(rec)
             /\ apiCalls(rec') = apiCalls(rec)
             /\ sent' = sent
     /\ (rec.stopPc # "idle" /\ rec'.stopPc = "idle") => recIdle(rec')
    ]_vars

\* a recording session was paused and then stopped, which left it idle,
\* and has rejected a stop() after that
C24_Witness ==
  /\ rec.rejected = NoSessionInProgress
  /\ rec.made = 1
  /\ rec.server[1] = "processing"
  /\ recIdle(rec)
  /\ \E i \in 1..Len(sent) : sent[i].type = "privacy_pause"
  /\ \A i \in 1..Len(sent) : sent[i].type # "privacy_resume"


\* start() fails in this step: it leaves its last await through its catch,
\* the event tracker never started
startFails ==
  /\ rec.startPc # "idle"
  /\ rec'.startPc = "idle"
  /\ ~rec'.isTracking

\* C25: when start() fails at any step (createSession, the screen capture's
\* start, the audio capture's start) the session object is idle afterwards,
\* the screen recorder, the audio recorder and the event tracker are all
\* stopped, and the session this start created on the server, if it got
\* that far, is not left in status 'recording'
C25_FailedStartLeavesNothing ==
  [][startFails
       => /\ recIdle(rec')
          /\ ~rec'.screen
          /\ ~rec'.audio
          /\ ~rec'.isTracking
          /\ rec.startPc # "createSession"
               => rec'.server[rec.made] # "recording"
    ]_vars

\* the audio capture's start has failed after the screen capture's had
\* succeeded: the object is idle, but the screen recorder runs on and the
\* server's session is still 'recording'
C25_Witness ==
  /\ recIdle(rec)
  /\ rec.startPc = "idle"
  /\ rec.stopPc = "idle"
  /\ ~rec.isTracking
  /\ rec.screen
  /\ rec.made = 1
  /\ rec.server[1] = "recording"
  /\ sent = <<>>

====
